---- MODULE Spec2Model ----
(***************************************************************************)
(* Knox cache: the datastore (metadata index, blob store, single-flight    *)
(* claim and the blocking Open) and the page handler that sits on top of   *)
(* it.                                                                     *)
(*                                                                         *)
(* Strings are sequences of byte values (104 is "h"), so that the base64   *)
(* key encoding and the header block format are computed, not assumed.     *)
(***************************************************************************)
EXTENDS Integers, Sequences, FiniteSets, TLC

(***************************************************************************)
(* Bounds of the model.                                                    *)
(***************************************************************************)
\* Concurrent request handlers (one request each).
NumProcs == 3
\* Concurrent claimers: callers of TryCreate, Write and Close of the
\* datastore API.
NumClaimers == 2
\* Claimers that run beside the one caller of Open.
NumWriters == 1
\* Length of an upstream body, in bytes.
BodyLen == 2
\* longest string given to the encoder
MaxLen == 3
\* values to one key of a header mapping
MaxValues == 2
\* bytes in a stored header block
MaxBlock == 5
\* nodes in a stored document
MaxNodes == 2
\* records asked of List in one call
MaxCount == 2
\* concurrent requests to the whole site (pages and the create form)
NumVisitors == 2

(***************************************************************************)
(* Program constants.                                                      *)
(***************************************************************************)
\* awaitCompletedResource: 100*time.Millisecond
BackoffBaseMs == 100
\* awaitCompletedResource: growth factor 1.5 = GrowthNum / GrowthDen
GrowthNum == 3
GrowthDen == 2
\* awaitCompletedResource: 10*time.Second, in milliseconds
MaxDelayMs == 10000
\* awaitCompletedResource: 30*time.Minute, in milliseconds
MaxTimeMs == 1800000
\* nanoseconds in a millisecond (time.Millisecond)
NsPerMs == 1000000

(***************************************************************************)
(* Byte strings.                                                           *)
(***************************************************************************)
CR == 13
LF == 10
SP == 32
HT == 9
COLON == 58
PAD == 61

RECURSIVE LexLess(_, _)
LexLess(a, b) ==
    IF Len(b) = 0 THEN FALSE
    ELSE IF Len(a) = 0 THEN TRUE
    ELSE IF a[1] # b[1] THEN a[1] < b[1]
    ELSE LexLess(Tail(a), Tail(b))

RECURSIVE Filter(_, _)
\* the bytes of s that are not in the set drop
Filter(s, drop) ==
    IF Len(s) = 0 THEN <<>>
    ELSE IF s[1] \in drop THEN Filter(Tail(s), drop)
    ELSE <<s[1]>> \o Filter(Tail(s), drop)

(***************************************************************************)
(* encoder.DefaultEncoder: base64.URLEncoding (padded, URL-safe alphabet). *)
(***************************************************************************)
\* the i-th character of the URL-safe alphabet A-Z a-z 0-9 - _
B64Char(i) ==
    IF i < 26 THEN 65 + i
    ELSE IF i < 52 THEN 97 + (i - 26)
    ELSE IF i < 62 THEN 48 + (i - 52)
    ELSE IF i = 62 THEN 45
    ELSE 95

\* the 6-bit value of an alphabet character, -1 for any other byte
B64Val(c) ==
    IF c >= 65 /\ c <= 90 THEN c - 65
    ELSE IF c >= 97 /\ c <= 122 THEN c - 97 + 26
    ELSE IF c >= 48 /\ c <= 57 THEN c - 48 + 52
    ELSE IF c = 45 THEN 62
    ELSE IF c = 95 THEN 63
    ELSE -1

RECURSIVE EncodeToString(_)
EncodeToString(b) ==
    IF Len(b) = 0 THEN <<>>
    ELSE IF Len(b) = 1 THEN
        <<B64Char(b[1] \div 4), B64Char((b[1] % 4) * 16), PAD, PAD>>
    ELSE IF Len(b) = 2 THEN
        <<B64Char(b[1] \div 4),
          B64Char((b[1] % 4) * 16 + (b[2] \div 16)),
          B64Char((b[2] % 16) * 4), PAD>>
    ELSE
        <<B64Char(b[1] \div 4),
          B64Char((b[1] % 4) * 16 + (b[2] \div 16)),
          B64Char((b[2] % 16) * 4 + (b[3] \div 64)),
          B64Char(b[3] % 64)>> \o EncodeToString(SubSeq(b, 4, Len(b)))

DecodeError == [ok |-> FALSE, val |-> <<>>]

RECURSIVE DecodeQuanta(_)
\* The decoder on input without CR and LF. It is not strict: the unused
\* low bits of the last character before the padding are not checked.
DecodeQuanta(s) ==
    IF Len(s) = 0 THEN [ok |-> TRUE, val |-> <<>>]
    ELSE IF Len(s) < 4 THEN DecodeError
    ELSE LET v1 == B64Val(s[1])
             v2 == B64Val(s[2])
             v3 == B64Val(s[3])
             v4 == B64Val(s[4])
         IN  IF v1 < 0 \/ v2 < 0 THEN DecodeError
             ELSE IF v3 >= 0 /\ v4 >= 0 THEN
                 LET rest == DecodeQuanta(SubSeq(s, 5, Len(s)))
                 IN  IF rest.ok
                     THEN [ok |-> TRUE,
                           val |-> <<v1 * 4 + (v2 \div 16),
                                     (v2 % 16) * 16 + (v3 \div 4),
                                     (v3 % 4) * 64 + v4>> \o rest.val]
                     ELSE DecodeError
             ELSE IF Len(s) # 4 THEN DecodeError
             ELSE IF s[3] = PAD /\ s[4] = PAD THEN
                 [ok |-> TRUE, val |-> <<v1 * 4 + (v2 \div 16)>>]
             ELSE IF v3 >= 0 /\ s[4] = PAD THEN
                 [ok |-> TRUE,
                  val |-> <<v1 * 4 + (v2 \div 16), (v2 % 16) * 16 + (v3 \div 4)>>]
             ELSE DecodeError

\* base64.URLEncoding.DecodeString: CR and LF are skipped wherever they are
DecodeString(s) ==
    CHOOSE r \in {DecodeQuanta(t) : t \in {Filter(s, {CR, LF})}} : TRUE

\* Encode with base64.RawURLEncoding, which leaves the padding out
Encode_NoPad(url) == Filter(EncodeToString(url), {PAD})

Encode(url) == EncodeToString(url)

\* Decode that hands back whatever it decoded and never reports an error
Decode_Lenient(encodedUrl) == [ok |-> TRUE, val |-> DecodeString(encodedUrl).val]

Decode(encodedUrl) == DecodeString(encodedUrl)

(***************************************************************************)
(* Header blocks.  A header mapping is [nil, map]: nil for a writer whose  *)
(* WriteHeaders was never called, map a function from keys to sequences of *)
(* values.                                                                 *)
(***************************************************************************)
NilHeader == [nil |-> TRUE, map |-> <<>>]

MkHeader(m) == [nil |-> FALSE, map |-> m]

\* httpguts.ValidHeaderFieldName: a non-empty token
IsTokenChar(c) ==
    \/ c >= 48 /\ c <= 57
    \/ c >= 65 /\ c <= 90
    \/ c >= 97 /\ c <= 122
    \/ c \in {33, 35, 36, 37, 38, 39, 42, 43, 45, 46, 94, 95, 96, 124, 126}

ValidHeaderFieldName(k) == Len(k) > 0 /\ \A i \in 1..Len(k) : IsTokenChar(k[i])

RECURSIVE TrimLeft(_, _)
TrimLeft(s, cut) ==
    IF Len(s) > 0 /\ s[1] \in cut THEN TrimLeft(Tail(s), cut) ELSE s

RECURSIVE TrimRight(_, _)
TrimRight(s, cut) ==
    IF Len(s) > 0 /\ s[Len(s)] \in cut
    THEN TrimRight(SubSeq(s, 1, Len(s) - 1), cut)
    ELSE s

\* Header.Write's value: CR and LF become spaces, then the value is trimmed
SanitizeValue(v) ==
    LET spaced == [i \in 1..Len(v) |-> IF v[i] \in {CR, LF} THEN SP ELSE v[i]]
    IN  TrimRight(TrimLeft(spaced, {SP, HT, CR, LF}), {SP, HT, CR, LF})

RECURSIVE WriteValues(_, _)
WriteValues(k, vs) ==
    IF Len(vs) = 0 THEN <<>>
    ELSE k \o <<COLON, SP>> \o SanitizeValue(vs[1]) \o <<CR, LF>>
         \o WriteValues(k, Tail(vs))

RECURSIVE WriteSorted(_, _)
\* Header.Write: keys in sorted order, invalid field names skipped
WriteSorted(m, keys) ==
    IF keys = {} THEN <<>>
    ELSE LET k == CHOOSE x \in keys : \A y \in keys \ {x} : LexLess(x, y)
         IN  (IF ValidHeaderFieldName(k) THEN WriteValues(k, m[k]) ELSE <<>>)
             \o WriteSorted(m, keys \ {k})

headersAsString(headers) ==
    IF headers.nil THEN <<>>
    ELSE WriteSorted(headers.map, DOMAIN headers.map) \o <<CR, LF>>

\* index of the last byte c in s, 0 when there is none
IndexOf_Last(s, c) ==
    IF \E i \in 1..Len(s) : s[i] = c
    THEN CHOOSE i \in 1..Len(s) : s[i] = c /\ \A j \in (i + 1)..Len(s) : s[j] # c
    ELSE 0

\* index of the first byte c in s, 0 when there is none
IndexOf(s, c) ==
    IF \E i \in 1..Len(s) : s[i] = c
    THEN CHOOSE i \in 1..Len(s) : s[i] = c /\ \A j \in 1..(i - 1) : s[j] # c
    ELSE 0

\* bufio.ScanLines: lines end at LF, one trailing CR is dropped, a last
\* line without LF is a line when it is not empty
ScanLines(s) ==
    LET n == Len(s)
        \* where the lines end: at each LF, and past the last byte when the
        \* input does not end in LF
        ends == {i \in 1..n : s[i] = LF}
                    \cup (IF n > 0 /\ s[n] # LF THEN {n + 1} ELSE {})
        nth(k) == CHOOSE e \in ends : Cardinality({x \in ends : x < e}) = k - 1
        start(e) == IF \E x \in ends : x < e
                    THEN 1 + CHOOSE x \in ends :
                                 x < e /\ \A y \in ends : y < e => y <= x
                    ELSE 1
        dropCR(raw) == IF Len(raw) > 0 /\ raw[Len(raw)] = CR
                       THEN SubSeq(raw, 1, Len(raw) - 1) ELSE raw
    IN  [k \in 1..Cardinality(ends) |-> dropCR(SubSeq(s, start(nth(k)), nth(k) - 1))]

RECURSIVE ReadHeaderLines(_, _)
\* The loop of readHeaders over the scanned lines.  A non-empty line with
\* no colon makes splitHeaderPair return the whole line at EOF, and the
\* slice pairBytes[len(rawKey)+1:] is then out of range: a panic.
ReadHeaderLines(lines, m) ==
    IF Len(lines) = 0 \/ Len(lines[1]) = 0 THEN [outcome |-> "ok", map |-> m]
    ELSE LET pairBytes == lines[1]
             i == IndexOf(pairBytes, COLON)
         IN  IF i = 0 THEN [outcome |-> "panic", map |-> <<>>]
             ELSE LET rawKey == SubSeq(pairBytes, 1, i - 1)
                      key == TrimRight(rawKey, {SP, HT})
                      value == TrimLeft(SubSeq(pairBytes, i + 1, Len(pairBytes)), {SP, HT})
                      m2 == IF key \in DOMAIN m
                            THEN [m EXCEPT ![key] = Append(@, value)]
                            ELSE [k \in (DOMAIN m) \cup {key} |->
                                     IF k = key THEN <<value>> ELSE m[k]]
                  IN  ReadHeaderLines(Tail(lines), m2)

\* the scanner is run over the stored block once, and the loop reads the
\* lines it yields
readHeaders(hs) ==
    CHOOSE r \in {ReadHeaderLines(lines, <<>>) : lines \in {ScanLines(hs)}} : TRUE

(***************************************************************************)
(* Durations.  time.Duration counts nanoseconds in 64 bits; a duration is  *)
(* kept here as [ms, ns] with 0 <= ns < NsPerMs so that 30 minutes fits.   *)
(***************************************************************************)
Millis(n) == [ms |-> n, ns |-> 0]

Norm(ms, ns) == [ms |-> ms + (ns \div NsPerMs), ns |-> ns % NsPerMs]

DurAdd(a, b) == Norm(a.ms + b.ms, a.ns + b.ns)

DurGE(a, b) == a.ms > b.ms \/ (a.ms = b.ms /\ a.ns >= b.ns)

\* the growth with the product cut to whole nanoseconds instead of rounded
Grow_Truncated(d) ==
    LET t == Norm(GrowthNum * d.ms, GrowthNum * d.ns)
    IN  [ms |-> t.ms \div GrowthDen,
         ns |-> ((t.ms % GrowthDen) * NsPerMs + t.ns) \div GrowthDen]

\* time.Duration(int64(math.Round(growthFactor * float64(d.Nanoseconds())))):
\* the product is exact in float64 for these sizes, and math.Round rounds
\* halves away from zero
Grow(d) ==
    LET t == Norm(GrowthNum * d.ms, GrowthNum * d.ns)
        \* 2 * t + GrowthDen, the numerator of t / GrowthDen + 1/2
        u == Norm(2 * t.ms, 2 * t.ns + GrowthDen)
        den == 2 * GrowthDen
    IN  [ms |-> u.ms \div den,
         ns |-> ((u.ms % den) * NsPerMs + u.ns) \div den]

(***************************************************************************)
(* The upstream servers and the inputs of the model.                       *)
(***************************************************************************)
\* "http://u/a"
UrlA == <<104, 116, 116, 112, 58, 47, 47, 117, 47, 97>>
\* "http://u/b"
UrlB == <<104, 116, 116, 112, 58, 47, 47, 117, 47, 98>>

UpstreamUrls == {UrlA, UrlB}

\* "Content-Type"
ContentType == <<67, 111, 110, 116, 101, 110, 116, 45, 84, 121, 112, 101>>
\* "text/plain"
TextPlain == <<116, 101, 120, 116, 47, 112, 108, 97, 105, 110>>
\* "text/html"
TextHtml == <<116, 101, 120, 116, 47, 104, 116, 109, 108>>
\* "Via"
Via == <<86, 105, 97>>
\* "Date"
Date == <<68, 97, 116, 101>>
\* "Alt-Svc"
AltSvc == <<65, 108, 116, 45, 83, 118, 99>>
\* "Content-Length"
ContentLength == <<67, 111, 110, 116, 101, 110, 116, 45, 76, 101, 110, 103, 116, 104>>
\* "Strict-Transport-Security"
StrictTransportSecurity ==
    <<83, 116, 114, 105, 99, 116, 45, 84, 114, 97, 110, 115, 112, 111, 114,
      116, 45, 83, 101, 99, 117, 114, 105, 116, 121>>

\* A body is a sequence of chunks, each written and read whole.  A chunk is
\* a node of the document the body holds: a run of text, or an element with
\* its attributes (tag and attribute keys as html.Parse gives them; values
\* as byte strings) and, for a script, its text.
TextNode(t) == [tag |-> "", attr |-> <<>>, text |-> t]

ElementNode(tag, attr) == [tag |-> tag, attr |-> attr, text |-> <<>>]

Attribute(k, v) == [key |-> k, val |-> v]

\* the page of UrlB: <a href="a">, <img src=":">, then text "C", "D", ..
PageNode(i) ==
    IF i = 1 THEN ElementNode("a", <<Attribute("href", <<97>>)>>)
    ELSE IF i = 2 THEN ElementNode("img", <<Attribute("src", <<COLON>>)>>)
    ELSE TextNode(<<64 + i>>)

\* the body an upstream serves: UrlA the text "1", "2", .., UrlB its page
UpstreamBody(u) ==
    [i \in 1..BodyLen |-> IF u = UrlA THEN TextNode(<<48 + i>>) ELSE PageNode(i)]

\* the response headers an upstream sends: UrlA is text/plain and comes
\* through a proxy ("Via: y"), UrlB is text/html and comes through two, the
\* first of which left its field empty ("Via:", "Via: y")
UpstreamHeaders(u) ==
    IF u = UrlA
    THEN MkHeader([k \in {ContentType, Via} |->
                      IF k = ContentType THEN <<TextPlain>> ELSE <<<<121>>>>])
    ELSE MkHeader([k \in {ContentType, Via} |->
                      IF k = ContentType THEN <<TextHtml>> ELSE <<<<>>, <<121>>>>])

\* a mapping a caller of WriteHeaders builds by hand: "Via" with the one
\* value " y"
UntrimmedHeaders == MkHeader([k \in {Via} |-> <<<<SP, 121>>>>])

\* a key that is no base64 at all: "!"
BadKey == <<33>>

\* the keys clients request
RequestKeys == {Encode(UrlA), Encode(UrlB), BadKey}

(***************************************************************************)
(* State.                                                                  *)
(***************************************************************************)
VARIABLES
    db,      \* the resource_metadata table: a sequence of rows, row i has ID i
    files,   \* the blob directory: id -> [data, closed] for every blob file
    hits,    \* per upstream URL, the requests the upstream has served
    pc,      \* per process, where it stands
    key,     \* per process, the hashed URL of its request or call
    url,     \* per process, the resource URL
    resp,    \* per process, the content being written: [headers, body, err]
    writer,  \* per process, its FileResourceWriter: [open, id, headers, rawBytes]
    wait,    \* per process, the backoff loop: [tries, currentDelay, totalTime]
    rm,      \* per process, the row awaitCompletedResource returned
    reply,   \* per process, the outcome: [status, body]
    later,   \* per process, whether a 200 for its key had been answered (for
             \* Open: the row was complete; for the create form: the URL had
             \* a row) when its request arrived (history)
    ret,     \* per caller of the datastore API, what its call returned
    handles, \* per process, the blob files it has open (os.Create, os.Open)
    req,     \* per process, the route of its request: "page" for /c/<key>,
             \* "create" for /?url=<u>
    admin,   \* what the caller of Stats and List was returned
    fault,   \* whether the environment has failed an operation: a fetch, a
             \* body read or an os.Create (history)
    clock    \* what time.Now() returns next; the epoch, time.UnixMicro(0), is 0

vars == <<db, files, hits, pc, key, url, resp, writer, wait, rm, reply, later,
          ret, handles, req, admin, fault, clock>>

Handlers == 1..NumProcs

Claimers == 1..NumClaimers

Writers == 1..NumWriters

\* the caller of Open
Opener == NumWriters + 1

NoResp == [headers |-> NilHeader, body |-> <<>>, err |-> FALSE]

NoWriter == [open |-> FALSE, id |-> 0, headers |-> NilHeader, rawBytes |-> 0]

NoRow == [ID |-> 0, HashedUrl |-> <<>>, Url |-> <<>>, ResponseHeaders |-> <<>>,
          DownloadStarted |-> 0, DownloadFinished |-> 0,
          RawBytes |-> 0, BytesOnDisk |-> 0, DownloadComplete |-> FALSE]

\* ResourceStats and the records of a ResourceIterator, before any call
NoAdmin == [RecordCount |-> 0, DiskConsumptionBytes |-> 0,
            offset |-> 0, count |-> 0, listed |-> <<>>]

NoReply == [status |-> 0, headers |-> NilHeader, body |-> <<>>]

InitProcs(P) ==
    /\ db = <<>>
    /\ files = <<>>
    /\ hits = [u \in UpstreamUrls |-> 0]
    /\ pc = [p \in P |-> "idle"]
    /\ key = [p \in P |-> <<>>]
    /\ url = [p \in P |-> <<>>]
    /\ resp = [p \in P |-> NoResp]
    /\ writer = [p \in P |-> NoWriter]
    /\ wait = [p \in P |-> [tries |-> 0, currentDelay |-> Millis(0), totalTime |-> Millis(0)]]
    /\ rm = [p \in P |-> NoRow]
    /\ reply = [p \in P |-> NoReply]
    /\ later = [p \in P |-> FALSE]
    /\ ret = [p \in P |-> "none"]
    /\ handles = [p \in P |-> 0]
    /\ req = [p \in P |-> "none"]
    /\ admin = NoAdmin
    /\ fault = FALSE
    /\ clock = 1

(***************************************************************************)
(* The metadata index.                                                     *)
(***************************************************************************)
\* db.First(&rm, "hashed_url = ?", hashedUrl): the row of lowest id, or
\* NoRow for gorm.ErrRecordNotFound
First(hashedUrl) ==
    LET ids == {i \in 1..Len(db) : db[i].HashedUrl = hashedUrl}
    IN  IF ids = {} THEN NoRow
        ELSE db[CHOOSE i \in ids : \A j \in ids : i <= j]

\* Status without the test of download_complete: any row counts as Cached
Status_NoCompleteTest(hashedUrl) ==
    IF First(hashedUrl).ID = 0 THEN "NotCached" ELSE "Cached"

\* Status with the test of download_complete the wrong way round
Status_Inverted(hashedUrl) ==
    LET row == First(hashedUrl)
    IN  IF row.ID = 0 THEN "NotCached"
        ELSE IF row.DownloadComplete THEN "Downloading"
        ELSE "Cached"

Status(hashedUrl) ==
    LET row == First(hashedUrl)
    IN  IF row.ID = 0 THEN "NotCached"
        ELSE IF ~row.DownloadComplete THEN "Downloading"
        ELSE "Cached"

\* the row both insert paths build: no headers, started now, finished at
\* the epoch, no sizes, not complete
StubRow(id, resourceUrl, hashedUrl) ==
    [ID |-> id, HashedUrl |-> hashedUrl, Url |-> resourceUrl,
     ResponseHeaders |-> <<>>,
     DownloadStarted |-> clock, DownloadFinished |-> 0,
     RawBytes |-> 0, BytesOnDisk |-> 0,
     DownloadComplete |-> FALSE]

\* the unique indexes on hashed_url and on url
Conflicts(resourceUrl, hashedUrl) ==
    \E i \in 1..Len(db) : db[i].HashedUrl = hashedUrl \/ db[i].Url = resourceUrl

\* the insert against a table whose only unique index is the one on url
tryCreateStubRecord_UrlOnly(resourceUrl, hashedUrl) ==
    IF \E i \in 1..Len(db) : db[i].Url = resourceUrl
    THEN [created |-> FALSE, id |-> 0, db |-> db]
    ELSE [created |-> TRUE, id |-> Len(db) + 1,
          db |-> Append(db, StubRow(Len(db) + 1, resourceUrl, hashedUrl))]

\* INSERT ... ON CONFLICT DO UPDATE: the row in the way is overwritten with
\* the stub
tryCreateStubRecord_Upsert(resourceUrl, hashedUrl) ==
    IF Conflicts(resourceUrl, hashedUrl)
    THEN [created |-> FALSE, id |-> 0,
          db |-> [i \in 1..Len(db) |->
                     IF db[i].HashedUrl = hashedUrl \/ db[i].Url = resourceUrl
                     THEN StubRow(i, db[i].Url, db[i].HashedUrl) ELSE db[i]]]
    ELSE [created |-> TRUE, id |-> Len(db) + 1,
          db |-> Append(db, StubRow(Len(db) + 1, resourceUrl, hashedUrl))]

\* the insert against a table whose only unique index is the one on
\* hashed_url
tryCreateStubRecord_KeyOnly(resourceUrl, hashedUrl) ==
    IF \E i \in 1..Len(db) : db[i].HashedUrl = hashedUrl
    THEN [created |-> FALSE, id |-> 0, db |-> db]
    ELSE [created |-> TRUE, id |-> Len(db) + 1,
          db |-> Append(db, StubRow(Len(db) + 1, resourceUrl, hashedUrl))]

\* a conflict on the key marks the row in the way as to be downloaded again
tryCreateStubRecord_Restart(resourceUrl, hashedUrl) ==
    IF Conflicts(resourceUrl, hashedUrl)
    THEN [created |-> FALSE, id |-> 0,
          db |-> [i \in 1..Len(db) |->
                     IF db[i].HashedUrl = hashedUrl
                     THEN [db[i] EXCEPT !.DownloadComplete = FALSE] ELSE db[i]]]
    ELSE [created |-> TRUE, id |-> Len(db) + 1,
          db |-> Append(db, StubRow(Len(db) + 1, resourceUrl, hashedUrl))]

\* the insert with RowsAffected not looked at: on a conflict the caller is
\* handed the id of the row in the way
tryCreateStubRecord_NoRowsAffectedTest(resourceUrl, hashedUrl) ==
    IF Conflicts(resourceUrl, hashedUrl)
    THEN [created |-> TRUE,
          id |-> CHOOSE i \in 1..Len(db) :
                     db[i].HashedUrl = hashedUrl \/ db[i].Url = resourceUrl,
          db |-> db]
    ELSE [created |-> TRUE, id |-> Len(db) + 1,
          db |-> Append(db, StubRow(Len(db) + 1, resourceUrl, hashedUrl))]

\* INSERT ... ON CONFLICT DO NOTHING: one atomic statement
tryCreateStubRecord(resourceUrl, hashedUrl) ==
    IF Conflicts(resourceUrl, hashedUrl)
    THEN [created |-> FALSE, id |-> 0, db |-> db]
    ELSE [created |-> TRUE, id |-> Len(db) + 1,
          db |-> Append(db, StubRow(Len(db) + 1, resourceUrl, hashedUrl))]

\* plain INSERT: a row that breaks a unique index is an error
createStubRecord(resourceUrl, hashedUrl) ==
    IF Conflicts(resourceUrl, hashedUrl)
    THEN [err |-> TRUE, id |-> 0, db |-> db]
    ELSE [err |-> FALSE, id |-> Len(db) + 1,
          db |-> Append(db, StubRow(Len(db) + 1, resourceUrl, hashedUrl))]

(***************************************************************************)
(* The blob store.                                                         *)
(***************************************************************************)
\* bytes of gzip framing around the data: 10 of header, 8 of trailer
GzipFraming == 18

\* fi.Size() of a blob
FileSize(f) == IF f.closed THEN Len(f.data) + GzipFraming ELSE Len(f.data)

\* os.Create: a new, empty file, truncating what was there
OsCreate(id) ==
    [i \in (DOMAIN files) \cup {id} |->
        IF i = id THEN [data |-> <<>>, closed |-> FALSE] ELSE files[i]]

\* FileResourceWriter.Write of one byte
WriteByte(id, b) == [files EXCEPT ![id].data = Append(@, b)]

\* rw.g.Close(): the gzip stream is flushed and ended
GzipClose(id) == [files EXCEPT ![id].closed = TRUE]

\* the UPDATE with the writer's byte count stored as the size on disk
writeFinalMetadata_RawAsDisk(rw) ==
    IF rw.id \notin DOMAIN files THEN db
    ELSE [db EXCEPT ![rw.id] =
             [@ EXCEPT !.ResponseHeaders = headersAsString(rw.headers),
                       !.DownloadFinished = clock,
                       !.RawBytes = rw.rawBytes,
                       !.BytesOnDisk = rw.rawBytes,
                       !.DownloadComplete = TRUE]]

\* the UPDATE of writeFinalMetadata; the table is left alone when os.Stat
\* fails
writeFinalMetadata(rw) ==
    IF rw.id \notin DOMAIN files THEN db
    ELSE [db EXCEPT ![rw.id] =
             [@ EXCEPT !.ResponseHeaders = headersAsString(rw.headers),
                       !.DownloadFinished = clock,
                       !.RawBytes = rw.rawBytes,
                       !.BytesOnDisk = FileSize(files[rw.id]),
                       !.DownloadComplete = TRUE]]

(***************************************************************************)
(* withExponentialBackoff and awaitCompletedResource.                      *)
(***************************************************************************)
\* getResource without the test of download_complete
getResource_AnyRow(row) == row.ID # 0

\* getResource: nil only for a row that exists and is complete
getResource(row) == row.ID # 0 /\ row.DownloadComplete

StartWait ==
    [tries |-> 0, currentDelay |-> Millis(BackoffBaseMs), totalTime |-> Millis(0)]

\* the test made against the time slept before the last sleep
DeadlinePassed_OneSleepLate(w) ==
    DurGE(w.totalTime, DurAdd(Millis(MaxTimeMs), w.currentDelay))

\* the test that ends the loop after a failed attempt
DeadlinePassed(w) == DurGE(w.totalTime, Millis(MaxTimeMs))

\* time.Sleep(currentDelay) and the bookkeeping after it
Sleep(w) ==
    LET grown == Grow(w.currentDelay)
    IN  [tries |-> w.tries + 1,
         totalTime |-> DurAdd(w.totalTime, w.currentDelay),
         currentDelay |-> IF DurGE(grown, Millis(MaxDelayMs))
                          THEN Millis(MaxDelayMs) ELSE grown]

\* the loop with the sleep ahead of the first attempt
AwaitOutcome_SleepFirst(p) ==
    IF wait[p].tries = 0 THEN "sleep"
    ELSE IF getResource(First(key[p])) THEN "ok"
    ELSE IF DeadlinePassed(wait[p]) THEN "timeout"
    ELSE "sleep"

\* a single attempt, with no retry
AwaitOutcome_NoRetry(p) ==
    IF getResource(First(key[p])) THEN "ok" ELSE "timeout"

\* one pass of the loop for the caller p: "ok" (f returned nil), "timeout"
\* (the error return) or "sleep"
AwaitOutcome(p) ==
    IF getResource(First(key[p])) THEN "ok"
    ELSE IF DeadlinePassed(wait[p]) THEN "timeout"
    ELSE "sleep"

(***************************************************************************)
(* Serving: getContentType, transformHtml, the header filter.              *)
(***************************************************************************)
\* "if ('serviceWorker' in navigator) ..", kept as "sw"
interceptionScript == <<115, 119>>

\* the script element addInterceptionScript puts before the first child of
\* the document
ScriptElem == [tag |-> "script", attr |-> <<>>, text |-> interceptionScript]
\* the html element html.Parse wraps every document in, as html.Render
\* opens and closes it
HtmlOpen == ElementNode("html", <<>>)

HtmlClose == ElementNode("/html", <<>>)

FilteredHeaderKeys == {ContentLength, AltSvc, Date, StrictTransportSecurity, Via}

\* Header.Get: the first value of the key, "" when there is none
HeaderGet(h, k) ==
    IF k \in DOMAIN h.map /\ Len(h.map[k]) > 0 THEN h.map[k][1] ELSE <<>>

\* the loop over filteredHeaderKeys of cachePage: a key is deleted when
\* Get returns a non-empty value for it
FilterHeaders(h) ==
    LET keep == {k \in DOMAIN h.map :
                    ~(k \in FilteredHeaderKeys /\ HeaderGet(h, k) # <<>>)}
    IN  MkHeader([k \in keep |-> h.map[k]])

ToLower(s) == [i \in 1..Len(s) |-> IF s[i] >= 65 /\ s[i] <= 90 THEN s[i] + 32 ELSE s[i]]

\* mime.ParseMediaType, as far as the media type goes: the text before the
\* first ";", trimmed and in lower case; <<>> stands for an error
ParseMediaType(v) ==
    LET i == IndexOf(v, 59)
        head == IF i = 0 THEN v ELSE SubSeq(v, 1, i - 1)
    IN  CHOOSE r \in {ToLower(t) :
                       t \in {TrimRight(l, {SP, HT}) :
                                 l \in {TrimLeft(x, {SP, HT}) : x \in {head}}}} : TRUE

\* getContentType that takes every resource for HTML
getContentType_AlwaysHtml(h) == TextHtml

getContentType(h) ==
    CHOOSE r \in {IF mediaType = <<>> THEN TextHtml ELSE mediaType :
                     mediaType \in {IF rawContentType = <<>> THEN <<>>
                                    ELSE ParseMediaType(rawContentType) :
                                        rawContentType \in {HeaderGet(h, ContentType)}}} : TRUE

(***************************************************************************)
(* net/url, for references without query, fragment, userinfo, port,        *)
(* percent-escape that is valid, or dot segment: the link values and       *)
(* resource URLs of this model have none, and url.Parse's handling of      *)
(* them is left out.                                                       *)
(***************************************************************************)
SLASH == 47

PERCENT == 37

IsLetter(c) == (c >= 65 /\ c <= 90) \/ (c >= 97 /\ c <= 122)

IsDigit(c) == c >= 48 /\ c <= 57

IsHex(c) == IsDigit(c) \/ (c >= 65 /\ c <= 70) \/ (c >= 97 /\ c <= 102)

HasPrefix(s, prefix) ==
    Len(s) >= Len(prefix) /\ SubSeq(s, 1, Len(prefix)) = prefix

\* index of the last byte c in s, 0 when there is none
LastIndexOf(s, c) ==
    IF \E i \in 1..Len(s) : s[i] = c
    THEN CHOOSE i \in 1..Len(s) : s[i] = c /\ \A j \in (i + 1)..Len(s) : s[j] # c
    ELSE 0

\* url.getScheme: letters, and after the first byte digits, "+", "-" and
\* ".", up to a colon; a colon in front is an error, any other byte means
\* there is no scheme
getScheme(rawURL) ==
    LET stops == {i \in 1..Len(rawURL) :
                     ~(\/ IsLetter(rawURL[i])
                       \/ i > 1 /\ (IsDigit(rawURL[i]) \/ rawURL[i] \in {43, 45, 46}))}
        i == IF stops = {} THEN 0 ELSE CHOOSE x \in stops : \A y \in stops : x <= y
    IN  IF i = 0 \/ rawURL[i] # COLON
        THEN [err |-> FALSE, scheme |-> <<>>, rest |-> rawURL]
        ELSE IF i = 1 THEN [err |-> TRUE, scheme |-> <<>>, rest |-> <<>>]
        ELSE [err |-> FALSE, scheme |-> SubSeq(rawURL, 1, i - 1),
              rest |-> SubSeq(rawURL, i + 1, Len(rawURL))]

UrlError == [err |-> TRUE, Scheme |-> <<>>, Opaque |-> <<>>, Host |-> <<>>, Path |-> <<>>]

\* URL.setPath: unescape fails on a "%" that two hex digits do not follow
setPath(scheme, host, p) ==
    IF \E i \in 1..Len(p) :
           p[i] = PERCENT /\ ~(i + 2 <= Len(p) /\ IsHex(p[i + 1]) /\ IsHex(p[i + 2]))
    THEN UrlError
    ELSE [err |-> FALSE, Scheme |-> scheme, Opaque |-> <<>>, Host |-> host, Path |-> p]

\* url.Parse after getScheme, s its result
parseAfterScheme(s) ==
    LET scheme == ToLower(s.scheme)
        rest == s.rest
    IN  IF s.err THEN UrlError
        ELSE IF Len(rest) = 0 \/ rest[1] # SLASH THEN
            IF scheme # <<>> THEN
                \* a rootless path after a scheme is opaque
                [err |-> FALSE, Scheme |-> scheme, Opaque |-> rest,
                 Host |-> <<>>, Path |-> <<>>]
            ELSE LET cut == IndexOf(rest, SLASH)
                     segment == IF cut = 0 THEN rest ELSE SubSeq(rest, 1, cut - 1)
                 IN  \* first path segment in URL cannot contain colon
                     IF IndexOf(segment, COLON) # 0 THEN UrlError
                     ELSE setPath(scheme, <<>>, rest)
        ELSE IF /\ HasPrefix(rest, <<SLASH, SLASH>>)
                /\ (scheme # <<>> \/ ~HasPrefix(rest, <<SLASH, SLASH, SLASH>>)) THEN
            LET after == SubSeq(rest, 3, Len(rest))
                j == IndexOf(after, SLASH)
            IN  IF j = 0 THEN setPath(scheme, after, <<>>)
                ELSE setPath(scheme, SubSeq(after, 1, j - 1),
                             SubSeq(after, j, Len(after)))
        ELSE setPath(scheme, <<>>, rest)

\* url.Parse
UrlParse(rawURL) ==
    IF \E i \in 1..Len(rawURL) : rawURL[i] < 32 \/ rawURL[i] = 127 THEN UrlError
    ELSE CHOOSE u \in {parseAfterScheme(s) : s \in {getScheme(rawURL)}} : TRUE

\* URL.IsAbs
IsAbs(u) == u.Scheme # <<>>

\* url.resolvePath: the reference replaces the last segment of the base,
\* and the result has one leading slash
resolvePath(base, ref) ==
    LET full == IF Len(ref) = 0 THEN base
                ELSE IF ref[1] # SLASH
                THEN SubSeq(base, 1, LastIndexOf(base, SLASH)) \o ref
                ELSE ref
    IN  IF Len(full) = 0 THEN <<>>
        ELSE IF full[1] = SLASH THEN full
        ELSE <<SLASH>> \o full

\* URL.ResolveReference for a reference without a scheme
ResolveReference(base, ref) ==
    IF ref.Host # <<>> THEN
        [ref EXCEPT !.Scheme = base.Scheme, !.Path = resolvePath(ref.Path, <<>>)]
    ELSE
        [ref EXCEPT !.Scheme = base.Scheme, !.Host = base.Host,
                    !.Path = resolvePath(base.Path, ref.Path)]

\* URL.String
UrlString(u) ==
    LET scheme == IF u.Scheme # <<>> THEN u.Scheme \o <<COLON>> ELSE <<>>
        slashes == IF (u.Scheme # <<>> \/ u.Host # <<>>) /\ (u.Host # <<>> \/ u.Path # <<>>)
                   THEN <<SLASH, SLASH>> ELSE <<>>
        rooted == IF Len(u.Path) > 0 /\ u.Path[1] # SLASH /\ u.Host # <<>>
                  THEN <<SLASH>> ELSE <<>>
        cut == IndexOf(u.Path, SLASH)
        segment == IF cut = 0 THEN u.Path ELSE SubSeq(u.Path, 1, cut - 1)
        dotted == IF u.Scheme = <<>> /\ u.Host = <<>> /\ IndexOf(segment, COLON) # 0
                  THEN <<46, SLASH>> ELSE <<>>
    IN  IF u.Opaque # <<>> THEN scheme \o u.Opaque
        ELSE scheme \o slashes \o u.Host \o rooted \o dotted \o u.Path

(***************************************************************************)
(* The rewriting of links.                                                 *)
(***************************************************************************)
\* getProtocol for a request without X-Forwarded-Proto: "http"
KnoxProtocol == <<104, 116, 116, 112>>
\* getHost: the Host of the requests, "k"
KnoxHost == <<107>>

\* linkAttrs[tag]; the empty set for a tag that is no key of the map
linkAttrs(tag) ==
    IF tag \in {"a", "link"} THEN {"href"}
    ELSE IF tag = "meta" THEN {"content"}
    ELSE IF tag \in {"script", "img"} THEN {"src"}
    ELSE {}

\* fmt.Sprintf("%s://%s/c/%s", protocol, host, encoded)
translateAbsoluteUrlToCachedUrl(toTranslate, protocol, host) ==
    protocol \o <<COLON, SLASH, SLASH>> \o host \o <<SLASH, 99, SLASH>>
        \o Encode(toTranslate)

\* translateCachedUrl that encodes the reference as it stands
translateCachedUrl_NoResolve(toTranslate, baseUrl, protocol, host) ==
    LET parsedUrl == UrlParse(toTranslate)
    IN  IF parsedUrl.err THEN [err |-> TRUE, val |-> <<>>]
        ELSE [err |-> FALSE,
              val |-> translateAbsoluteUrlToCachedUrl(UrlString(parsedUrl), protocol, host)]

translateCachedUrl(toTranslate, baseUrl, protocol, host) ==
    LET parsedUrl == UrlParse(toTranslate)
        absoluteUrl == IF ~IsAbs(parsedUrl) THEN ResolveReference(baseUrl, parsedUrl)
                       ELSE parsedUrl
    IN  IF parsedUrl.err THEN [err |-> TRUE, val |-> <<>>]
        ELSE [err |-> FALSE,
              val |-> translateAbsoluteUrlToCachedUrl(UrlString(absoluteUrl), protocol, host)]

\* modifyLink without its continue: the value is assigned also when the
\* translation failed
modifyLink_NoContinue(tag, node, baseUrl, protocol, host) ==
    [node EXCEPT !.attr =
        [i \in 1..Len(node.attr) |->
            IF node.attr[i].key \in linkAttrs(tag)
            THEN [node.attr[i] EXCEPT !.val =
                     translateCachedUrl(node.attr[i].val, baseUrl, protocol, host).val]
            ELSE node.attr[i]]]

modifyLink(tag, node, baseUrl, protocol, host) ==
    [node EXCEPT !.attr =
        [i \in 1..Len(node.attr) |->
            LET translated == translateCachedUrl(node.attr[i].val, baseUrl, protocol, host)
            IN  IF node.attr[i].key \in linkAttrs(tag) /\ ~translated.err
                THEN [node.attr[i] EXCEPT !.val = translated.val]
                ELSE node.attr[i]]]

\* transformHtml with the script appended to the document (AppendChild)
\* instead of put before its first child
transformHtml_ScriptLast(resourceUrl, body, protocol, host) ==
    <<HtmlOpen>>
        \o [i \in 1..Len(body) |->
               IF linkAttrs(body[i].tag) # {}
               THEN modifyLink(body[i].tag, body[i], resourceUrl, protocol, host)
               ELSE body[i]]
        \o <<HtmlClose, ScriptElem>>

\* html.Parse, addInterceptionScript, visitNode over the tree and
\* html.Render: the script element is put before the document's first
\* child, the html element, and every element whose tag is a key of
\* linkAttrs goes through modifyLink
transformHtml(resourceUrl, body, protocol, host) ==
    <<ScriptElem, HtmlOpen>>
        \o [i \in 1..Len(body) |->
               IF linkAttrs(body[i].tag) # {}
               THEN modifyLink(body[i].tag, body[i], resourceUrl, protocol, host)
               ELSE body[i]]
        \o <<HtmlClose>>

\* what serveExistingPage writes as the body for a reader with these
\* headers, resource URL and body
ServedBody(h, parsedUrl, body) ==
    IF getContentType(h) = TextHtml
    THEN transformHtml(parsedUrl, body, KnoxProtocol, KnoxHost)
    ELSE body

\* textproto.CanonicalMIMEHeaderKey: a key with a byte that is no token
\* byte is returned as it is; otherwise the first letter and every letter
\* after a "-" are upper case and the others lower case
CanonicalMIMEHeaderKey(k) ==
    IF \E i \in 1..Len(k) : ~IsTokenChar(k[i]) THEN k
    ELSE [i \in 1..Len(k) |->
             IF i = 1 \/ k[i - 1] = 45
             THEN (IF k[i] >= 97 /\ k[i] <= 122 THEN k[i] - 32 ELSE k[i])
             ELSE (IF k[i] >= 65 /\ k[i] <= 90 THEN k[i] + 32 ELSE k[i])]

RECURSIVE Flatten(_, _)
\* the values of the keys in the order of keys, one list
Flatten(m, keys) ==
    IF Len(keys) = 0 THEN <<>> ELSE m[keys[1]] \o Flatten(m, Tail(keys))

\* The header mappings the loop of serveExistingPage can leave in
\* w.Header(): every value is added under the canonical form of its key.
\* The loop ranges over a map, so stored keys that share a canonical form
\* come in any order.
ServedHeaders(h) ==
    LET canon == {CanonicalMIMEHeaderKey(k) : k \in DOMAIN h.map}
        group(c) == {k \in DOMAIN h.map : CanonicalMIMEHeaderKey(k) = c}
        orders(c) == {o \in [1..Cardinality(group(c)) -> group(c)] :
                         \A k \in group(c) : \E i \in DOMAIN o : o[i] = k}
        lists(c) == {Flatten(h.map, o) : o \in orders(c)}
    IN  {MkHeader(m) : m \in {f \in [canon -> UNION {lists(c) : c \in canon}] :
                                   \A c \in canon : f[c] \in lists(c)}}

\* the body a reader of blob id gets
BlobBody(id) == files[id].data

(***************************************************************************)
(* handlePageRequest, one request per handler.                             *)
(***************************************************************************)
Respond(p, status, body) ==
    /\ reply' = [reply EXCEPT ![p] =
                     [status |-> status, headers |-> NilHeader, body |-> body]]
    /\ pc' = [pc EXCEPT ![p] = "done"]

\* handlePageRequest for a key among keys: ds.Status is read; on NotCached
\* the key is decoded.
PageRequest(p, keys) ==
    /\ pc[p] = "idle"
    /\ \E k \in keys :
        /\ key' = [key EXCEPT ![p] = k]
        /\ later' = [later EXCEPT ![p] =
                        \E q \in DOMAIN pc : key[q] = k /\ reply[q].status = 200]
        /\ LET status == Status(k)
               decoded == Decode(k)
           IN  IF status = "Downloading" THEN
                   Respond(p, 409, <<>>) /\ UNCHANGED <<url, wait>>
               ELSE IF status = "Cached" THEN
                   /\ pc' = [pc EXCEPT ![p] = "open"]
                   /\ wait' = [wait EXCEPT ![p] = StartWait]
                   /\ UNCHANGED <<url, reply>>
               ELSE IF ~decoded.ok THEN
                   Respond(p, 400, <<>>) /\ UNCHANGED <<url, wait>>
               ELSE
                   /\ url' = [url EXCEPT ![p] = decoded.val]
                   /\ pc' = [pc EXCEPT ![p] = "fetch"]
                   /\ UNCHANGED <<reply, wait>>
    /\ UNCHANGED <<db, files, hits, resp, writer, rm, ret, fault, clock>>
    /\ req' = [req EXCEPT ![p] = "page"]
    /\ UNCHANGED <<handles, admin>>

\* The request GET /c/k arrives, k one of the request keys.
HandlePageRequest(p) == PageRequest(p, RequestKeys)

\* handleCreatePageRequest with one query parameter, url: cachePage is
\* called for it, with no look at the index first; later records whether
\* the URL had a row by then
HandleCreatePageRequest(p) ==
    /\ pc[p] = "idle"
    /\ \E u \in UpstreamUrls :
        /\ url' = [url EXCEPT ![p] = u]
        /\ later' = [later EXCEPT ![p] = \E i \in 1..Len(db) : db[i].Url = u]
    /\ req' = [req EXCEPT ![p] = "create"]
    /\ pc' = [pc EXCEPT ![p] = "fetch"]
    /\ UNCHANGED <<db, files, hits, key, resp, writer, wait, rm, reply, ret,
                   handles, admin, fault, clock>>

\* cachePage: client.Do(req).  The upstream serves the request, or the
\* request fails (no such server, or the network).
CachePageFetch(p) ==
    /\ pc[p] = "fetch"
    /\ \E served \in {s \in BOOLEAN : s => url[p] \in UpstreamUrls} :
        IF served THEN
            /\ hits' = [hits EXCEPT ![url[p]] = @ + 1]
            /\ resp' = [resp EXCEPT ![p] =
                           [headers |-> UpstreamHeaders(url[p]),
                            body |-> UpstreamBody(url[p]), err |-> FALSE]]
            /\ pc' = [pc EXCEPT ![p] = "create"]
            /\ UNCHANGED <<reply, fault>>
        ELSE
            /\ Respond(p, 500, <<>>)
            /\ fault' = TRUE
            /\ UNCHANGED <<hits, resp>>
    /\ UNCHANGED <<db, files, key, url, writer, wait, rm, later, ret, clock>>
    /\ UNCHANGED <<handles, req, admin>>

\* ds.Create, first half: the row is inserted under Encode(srcUrl)
CachePageCreate(p) ==
    /\ pc[p] = "create"
    /\ LET r == createStubRecord(url[p], Encode(url[p]))
       IN  IF r.err THEN
               Respond(p, 500, <<>>) /\ UNCHANGED <<db, writer>>
           ELSE
               /\ db' = r.db
               /\ writer' = [writer EXCEPT ![p] = [NoWriter EXCEPT !.id = r.id]]
               /\ pc' = [pc EXCEPT ![p] = "mkfile"]
               /\ UNCHANGED reply
    /\ clock' = clock + 1
    /\ UNCHANGED <<files, hits, key, url, resp, wait, rm, later, ret, fault>>
    /\ UNCHANGED <<handles, req, admin>>

\* ds.Create, second half: os.Create of the blob, which may fail; then the
\* header filter and WriteHeaders
CachePageCreateFile(p) ==
    /\ pc[p] = "mkfile"
    /\ \E ok \in BOOLEAN :
        IF ok THEN
            /\ files' = OsCreate(writer[p].id)
            /\ writer' = [writer EXCEPT ![p] =
                             [@ EXCEPT !.open = TRUE,
                                       !.headers = FilterHeaders(resp[p].headers)]]
            /\ pc' = [pc EXCEPT ![p] = "copy"]
            /\ handles' = [handles EXCEPT ![p] = @ + 1]
            /\ UNCHANGED <<reply, fault>>
        ELSE
            /\ Respond(p, 500, <<>>)
            /\ fault' = TRUE
            /\ UNCHANGED <<files, writer, handles>>
    /\ UNCHANGED <<db, hits, key, url, resp, wait, rm, later, ret, clock>>
    /\ UNCHANGED <<req, admin>>

\* io.Copy(resourceWriter, resp.Body), a byte at a time: the next byte is
\* written, or reading the body (or writing the blob) fails.  Either way the
\* deferred resourceWriter.Close() comes next.
CachePageCopy(p) ==
    /\ pc[p] = "copy"
    /\ LET n == writer[p].rawBytes
       IN  IF n = Len(resp[p].body) THEN
               /\ pc' = [pc EXCEPT ![p] = "gzclose"]
               /\ UNCHANGED <<files, writer, resp, fault>>
           ELSE \E ok \in BOOLEAN :
               IF ok THEN
                   /\ files' = WriteByte(writer[p].id, resp[p].body[n + 1])
                   /\ writer' = [writer EXCEPT ![p].rawBytes = n + 1]
                   /\ UNCHANGED <<pc, resp, fault>>
               ELSE
                   /\ resp' = [resp EXCEPT ![p].err = TRUE]
                   /\ fault' = TRUE
                   /\ pc' = [pc EXCEPT ![p] = "gzclose"]
                   /\ UNCHANGED <<files, writer>>
    /\ UNCHANGED <<db, hits, key, url, wait, rm, reply, later, ret, clock>>
    /\ UNCHANGED <<handles, req, admin>>

\* FileResourceWriter.Close, first half: rw.g.Close(), which ends the gzip
\* stream and leaves the file under it open
CachePageCloseGzip(p) ==
    /\ pc[p] = "gzclose"
    /\ files' = GzipClose(writer[p].id)
    /\ pc' = [pc EXCEPT ![p] = "finalize"]
    /\ UNCHANGED <<db, hits, key, url, resp, writer, wait, rm, reply, later, ret, fault, clock>>
    /\ UNCHANGED <<handles, req, admin>>

\* FileResourceWriter.Close, second half: writeFinalMetadata.  cachePage
\* then returns the error of io.Copy, if there was one, and the handler
\* answers 500; otherwise serveExistingPage follows, or the success page of
\* the create form.
CachePageFinalize(p) ==
    /\ pc[p] = "finalize"
    /\ db' = writeFinalMetadata(writer[p])
    /\ writer' = [writer EXCEPT ![p].open = FALSE]
    /\ IF resp[p].err THEN
           Respond(p, 500, <<>>) /\ UNCHANGED wait
       ELSE IF req[p] = "create" THEN
           Respond(p, 200, <<>>) /\ UNCHANGED wait
       ELSE
           /\ pc' = [pc EXCEPT ![p] = "open"]
           /\ wait' = [wait EXCEPT ![p] = StartWait]
           /\ UNCHANGED reply
    /\ clock' = IF writer[p].id \in DOMAIN files THEN clock + 1 ELSE clock
    /\ UNCHANGED <<files, hits, key, url, resp, rm, later, ret, fault>>
    /\ UNCHANGED <<handles, req, admin>>

\* serveExistingPage: ds.Open, one pass of the poll of awaitCompletedResource
ServeOpenPoll(p) ==
    /\ pc[p] = "open"
    /\ LET outcome == AwaitOutcome(p)
       IN  IF outcome = "ok" THEN
               /\ rm' = [rm EXCEPT ![p] = First(key[p])]
               /\ pc' = [pc EXCEPT ![p] = "openfile"]
               /\ UNCHANGED <<wait, reply>>
           ELSE IF outcome = "timeout" THEN
               Respond(p, 500, <<>>) /\ UNCHANGED <<wait, rm>>
           ELSE
               /\ wait' = [wait EXCEPT ![p] = Sleep(@)]
               /\ UNCHANGED <<pc, rm, reply>>
    /\ UNCHANGED <<db, files, hits, key, url, resp, writer, later, ret, fault, clock>>
    /\ UNCHANGED <<handles, req, admin>>

\* serveExistingPage after the poll: os.Open, readHeaders, the gzip reader;
\* the stored headers are added to the response, the resource URL is parsed
\* (400 when it does not parse), and the body is written with an implicit
\* 200
ServeExistingPage(p) ==
    /\ pc[p] = "openfile"
    /\ \E parsed \in {readHeaders(rm[p].ResponseHeaders)}, parsedUrl \in {UrlParse(rm[p].Url)} :
           IF rm[p].ID \notin DOMAIN files \/ parsed.outcome # "ok" THEN
               Respond(p, 500, <<>>)
           ELSE \E served \in ServedHeaders(MkHeader(parsed.map)) :
               /\ reply' = [reply EXCEPT ![p] =
                      IF parsedUrl.err
                      THEN [status |-> 400, headers |-> served, body |-> <<>>]
                      ELSE [status |-> 200, headers |-> served,
                            body |-> ServedBody(MkHeader(parsed.map), parsedUrl,
                                                BlobBody(rm[p].ID))]]
               /\ pc' = [pc EXCEPT ![p] = "done"]
    /\ UNCHANGED <<db, files, hits, key, url, resp, writer, wait, rm, later, ret, fault, clock>>
    \* os.Open: the handle of the blob, when the file is there
    /\ handles' = [handles EXCEPT ![p] = IF rm[p].ID \in DOMAIN files THEN @ + 1 ELSE @]
    /\ UNCHANGED <<req, admin>>

Next ==
    \E p \in Handlers :
        \/ HandlePageRequest(p)
        \/ CachePageFetch(p)
        \/ CachePageCreate(p)
        \/ CachePageCreateFile(p)
        \/ CachePageCopy(p)
        \/ CachePageCloseGzip(p)
        \/ CachePageFinalize(p)
        \/ ServeOpenPoll(p)
        \/ ServeExistingPage(p)

Init == InitProcs(Handlers)

Spec == Init /\ [][Next]_vars

(***************************************************************************)
(* The whole site: page requests, also for a key that is not the encoding  *)
(* of its URL, and the create form.                                        *)
(***************************************************************************)
Visitors == 1..NumVisitors

\* the key of UrlA with the unused low bits of its last character set:
\* DecodeString does not look at them
AliasKey == LET e == Encode(UrlA) IN [e EXCEPT ![Len(e) - 2] = @ + 1]

SiteKeys == {Encode(UrlA), AliasKey}

VisitorNext(p) ==
    \/ PageRequest(p, SiteKeys)
    \/ HandleCreatePageRequest(p)
    \/ CachePageFetch(p)
    \/ CachePageCreate(p)
    \/ CachePageCreateFile(p)
    \/ CachePageCopy(p)
    \/ CachePageCloseGzip(p)
    \/ CachePageFinalize(p)
    \/ ServeOpenPoll(p)
    \/ ServeExistingPage(p)

NextSite == \E p \in Visitors : VisitorNext(p)

InitSite == InitProcs(Visitors)

SpecSite == InitSite /\ [][NextSite]_vars

\* every handler runs in its own goroutine
FairSpecSite == SpecSite /\ \A p \in Visitors : WF_vars(VisitorNext(p))

(***************************************************************************)
(* Callers of the datastore API: claimers run TryCreate, WriteHeaders,     *)
(* Write and Close; the opener runs Open.                                  *)
(***************************************************************************)
\* the hashed URLs the callers use
DsKeys == {Encode(UrlA), Encode(UrlB)}

Return(p, r) ==
    /\ ret' = [ret EXCEPT ![p] = r]
    /\ pc' = [pc EXCEPT ![p] = "done"]

\* TryCreate, first half: tryCreateStubRecord for any resource URL and any
\* hashed URL.  Without a new row the call returns (nil, nil).
TryCreate(c) ==
    /\ pc[c] = "idle"
    /\ \E u \in UpstreamUrls, k \in DsKeys :
        /\ url' = [url EXCEPT ![c] = u]
        /\ key' = [key EXCEPT ![c] = k]
        /\ LET r == tryCreateStubRecord(u, k)
           IN  /\ db' = r.db
               /\ IF r.created THEN
                      /\ writer' = [writer EXCEPT ![c] = [NoWriter EXCEPT !.id = r.id]]
                      /\ pc' = [pc EXCEPT ![c] = "mkfile"]
                      /\ UNCHANGED ret
                  ELSE
                      Return(c, "nil") /\ UNCHANGED writer
    /\ clock' = clock + 1
    /\ UNCHANGED <<files, hits, resp, wait, rm, reply, later, fault>>
    /\ UNCHANGED <<handles, req, admin>>

\* TryCreate, second half: os.Create, which may fail, and the writer.  The
\* caller then calls WriteHeaders, with the headers of an upstream or with
\* a mapping of its own, or leaves the headers nil.
TryCreateFile(c) ==
    /\ pc[c] = "mkfile"
    /\ \E ok \in BOOLEAN :
        IF ok THEN
            \E h \in {NilHeader, UpstreamHeaders(url[c]), UntrimmedHeaders} :
                /\ files' = OsCreate(writer[c].id)
                /\ writer' = [writer EXCEPT ![c] = [@ EXCEPT !.open = TRUE, !.headers = h]]
                /\ resp' = [resp EXCEPT ![c] =
                               [headers |-> h, body |-> UpstreamBody(url[c]), err |-> FALSE]]
                /\ ret' = [ret EXCEPT ![c] = "writer"]
                /\ pc' = [pc EXCEPT ![c] = "write"]
                /\ handles' = [handles EXCEPT ![c] = @ + 1]
                /\ UNCHANGED fault
        ELSE
            /\ Return(c, "err")
            /\ fault' = TRUE
            /\ UNCHANGED <<files, writer, resp, handles>>
    /\ UNCHANGED <<db, hits, key, url, wait, rm, reply, later, clock>>
    /\ UNCHANGED <<req, admin>>

\* FileResourceWriter.Write of the next byte of the caller's body
Write(c) ==
    /\ pc[c] = "write"
    /\ writer[c].rawBytes < Len(resp[c].body)
    /\ files' = WriteByte(writer[c].id, resp[c].body[writer[c].rawBytes + 1])
    /\ writer' = [writer EXCEPT ![c].rawBytes = @ + 1]
    /\ UNCHANGED <<db, hits, pc, key, url, resp, wait, rm, reply, later, ret, fault, clock>>
    /\ UNCHANGED <<handles, req, admin>>

\* FileResourceWriter.Close, first half: rw.g.Close()
CloseGzip(c) ==
    /\ pc[c] = "write"
    /\ writer[c].rawBytes = Len(resp[c].body)
    /\ files' = GzipClose(writer[c].id)
    /\ pc' = [pc EXCEPT ![c] = "finalize"]
    /\ UNCHANGED <<db, hits, key, url, resp, writer, wait, rm, reply, later, ret, fault, clock>>
    /\ UNCHANGED <<handles, req, admin>>

\* FileResourceWriter.Close, second half: writeFinalMetadata
CloseFinalize(c) ==
    /\ pc[c] = "finalize"
    /\ db' = writeFinalMetadata(writer[c])
    /\ writer' = [writer EXCEPT ![c].open = FALSE]
    /\ Return(c, "closed")
    /\ clock' = IF writer[c].id \in DOMAIN files THEN clock + 1 ELSE clock
    /\ UNCHANGED <<files, hits, key, url, resp, wait, rm, reply, later, fault>>
    /\ UNCHANGED <<handles, req, admin>>

\* The process of a caller stops for good after its claim and before its
\* Close has finalized the row.
Die(c) ==
    /\ pc[c] \in {"mkfile", "write", "finalize"}
    /\ pc' = [pc EXCEPT ![c] = "dead"]
    /\ UNCHANGED <<db, files, hits, key, url, resp, writer, wait, rm, reply, later, ret, fault, clock>>
    /\ UNCHANGED <<handles, req, admin>>

\* Open is called for a hashed URL; later records whether the row was
\* complete by then
Open(o) ==
    /\ pc[o] = "idle"
    /\ \E k \in DsKeys :
        /\ key' = [key EXCEPT ![o] = k]
        /\ later' = [later EXCEPT ![o] = First(k).DownloadComplete]
    /\ wait' = [wait EXCEPT ![o] = StartWait]
    /\ pc' = [pc EXCEPT ![o] = "open"]
    /\ UNCHANGED <<db, files, hits, url, resp, writer, rm, reply, ret, fault, clock>>
    /\ UNCHANGED <<handles, req, admin>>

\* one pass of the poll of awaitCompletedResource
OpenPoll(o) ==
    /\ pc[o] = "open"
    /\ LET outcome == AwaitOutcome(o)
       IN  IF outcome = "ok" THEN
               /\ rm' = [rm EXCEPT ![o] = First(key[o])]
               /\ pc' = [pc EXCEPT ![o] = "openfile"]
               /\ UNCHANGED <<wait, ret>>
           ELSE IF outcome = "timeout" THEN
               Return(o, "err") /\ UNCHANGED <<wait, rm>>
           ELSE
               /\ wait' = [wait EXCEPT ![o] = Sleep(@)]
               /\ UNCHANGED <<pc, rm, ret>>
    /\ UNCHANGED <<db, files, hits, key, url, resp, writer, reply, later, fault, clock>>
    /\ UNCHANGED <<handles, req, admin>>

\* Open after the poll: os.Open, readHeaders and the gzip reader; reply
\* holds the headers and the body the returned reader yields, rm its
\* resource URL
OpenFile(o) ==
    /\ pc[o] = "openfile"
    /\ LET parsed == readHeaders(rm[o].ResponseHeaders)
       IN  IF rm[o].ID \notin DOMAIN files \/ parsed.outcome # "ok" THEN
               Return(o, "err") /\ UNCHANGED reply
           ELSE
               /\ Return(o, "reader")
               /\ reply' = [reply EXCEPT ![o] =
                                [status |-> 0, headers |-> MkHeader(parsed.map),
                                 body |-> BlobBody(rm[o].ID)]]
    /\ UNCHANGED <<db, files, hits, key, url, resp, writer, wait, rm, later, fault, clock>>
    \* os.Open: the handle of the blob, when the file is there
    /\ handles' = [handles EXCEPT ![o] = IF rm[o].ID \in DOMAIN files THEN @ + 1 ELSE @]
    /\ UNCHANGED <<req, admin>>

OpenerNext == Open(Opener) \/ OpenPoll(Opener) \/ OpenFile(Opener)

ClaimerNext(c) ==
    \/ TryCreate(c)
    \/ TryCreateFile(c)
    \/ Write(c)
    \/ CloseGzip(c)
    \/ CloseFinalize(c)
    \/ Die(c)

\* The claim race: claimers alone.
NextClaim == \E c \in Claimers : ClaimerNext(c)

InitClaim == InitProcs(Claimers)

SpecClaim == InitClaim /\ [][NextClaim]_vars

\* A caller of Open beside the writers.
NextOpen == OpenerNext \/ \E c \in Writers : ClaimerNext(c)

InitOpen == InitProcs(Writers \cup {Opener})

SpecOpen == InitOpen /\ [][NextOpen]_vars

\* The opener is a running goroutine: the scheduler lets it take its next
\* step.  Nothing is assumed of the writers, which may stall or die.
FairSpecOpen == SpecOpen /\ WF_vars(OpenerNext)

(***************************************************************************)
(* Stats and List, called beside the claimers.                             *)
(***************************************************************************)
RECURSIVE SumBytesOnDisk(_)
\* select sum(bytes_on_disk) over the rows
SumBytesOnDisk(rows) ==
    IF Len(rows) = 0 THEN 0 ELSE rows[1].BytesOnDisk + SumBytesOnDisk(Tail(rows))

RECURSIVE OrderDesc(_)
\* Order("download_started desc"): the rows, latest start first.  Every
\* insert reads a later time.Now(), so no two rows start at the same time.
OrderDesc(rows) ==
    IF rows = {} THEN <<>>
    ELSE LET r == CHOOSE x \in rows : \A y \in rows : y.DownloadStarted <= x.DownloadStarted
         IN  <<r>> \o OrderDesc(rows \ {r})

\* List with the rows ordered by download_started ascending
ListRows_Ascending(offset, count) ==
    LET ordered == OrderDesc({db[i] : i \in 1..Len(db)})
        n == Len(ordered)
        asc == [i \in 1..n |-> ordered[n + 1 - i]]
    IN  SubSeq(asc, offset + 1, IF offset + count < n THEN offset + count ELSE n)

\* db.Limit(count).Offset(offset).Order("download_started desc").Find(&rms)
ListRows(offset, count) ==
    LET ordered == OrderDesc({db[i] : i \in 1..Len(db)})
    IN  SubSeq(ordered, offset + 1,
               IF offset + count < Len(ordered) THEN offset + count ELSE Len(ordered))

\* fileResourceIterator.Next: the ResourceMetadata of a row
ResourceMetadataOf(row) ==
    [Url |-> row.Url, DownloadStarted |-> row.DownloadStarted,
     DownloadDuration |-> row.DownloadFinished - row.DownloadStarted,
     RawBytes |-> row.RawBytes, BytesOnDisk |-> row.BytesOnDisk]

\* the caller of Stats and List
Lister == NumClaimers + 1

\* Stats, first query: Count over the table
StatsCount(a) ==
    /\ pc[a] = "idle"
    /\ admin' = [admin EXCEPT !.RecordCount = Len(db)]
    /\ pc' = [pc EXCEPT ![a] = "sum"]
    /\ UNCHANGED <<db, files, hits, key, url, resp, writer, wait, rm, reply, later,
                   ret, handles, req, fault, clock>>

\* Stats, second query: sum(bytes_on_disk) over the table
StatsSum(a) ==
    /\ pc[a] = "sum"
    /\ admin' = [admin EXCEPT !.DiskConsumptionBytes = SumBytesOnDisk(db)]
    /\ pc' = [pc EXCEPT ![a] = "list"]
    /\ UNCHANGED <<db, files, hits, key, url, resp, writer, wait, rm, reply, later,
                   ret, handles, req, fault, clock>>

\* List(offset, count) and the iteration over what it returned
List(a) ==
    /\ pc[a] = "list"
    /\ \E offset \in 0..(Len(db) + 1), count \in 1..MaxCount :
        LET rms == ListRows(offset, count)
        IN  admin' = [admin EXCEPT
                         !.offset = offset, !.count = count,
                         !.listed = [i \in 1..Len(rms) |-> ResourceMetadataOf(rms[i])]]
    /\ Return(a, "listed")
    /\ UNCHANGED <<db, files, hits, key, url, resp, writer, wait, rm, reply, later,
                   handles, req, fault, clock>>

ListerNext == StatsCount(Lister) \/ StatsSum(Lister) \/ List(Lister)

NextAdmin == ListerNext \/ \E c \in Claimers : ClaimerNext(c)

InitAdmin == InitProcs(Claimers \cup {Lister})

SpecAdmin == InitAdmin /\ [][NextAdmin]_vars

(***************************************************************************)
(* The encoder on its own: a string is encoded, then the result decoded.   *)
(***************************************************************************)
\* bytes of the strings: NUL, ":", and two bytes whose sextets reach the
\* "-" and "_" of the URL alphabet
UrlBytes == {0, 58, 251, 255}

\* the strings of at most MaxLen bytes
UrlStrings == UNION {[1..n -> UrlBytes] : n \in 0..MaxLen}

Coder == 1

\* encoder.Encode(u)
EncodeUrl(p) ==
    /\ pc[p] = "idle"
    /\ \E u \in UrlStrings :
        /\ url' = [url EXCEPT ![p] = u]
        /\ key' = [key EXCEPT ![p] = Encode(u)]
    /\ pc' = [pc EXCEPT ![p] = "decode"]
    /\ UNCHANGED <<db, files, hits, resp, writer, wait, rm, reply, later, ret, fault, clock>>
    /\ UNCHANGED <<handles, req, admin>>

\* encoder.Decode of what Encode returned; reply holds the decoded string
DecodeKey(p) ==
    /\ pc[p] = "decode"
    /\ LET decoded == Decode(key[p])
       IN  /\ Return(p, IF decoded.ok THEN "ok" ELSE "err")
           /\ reply' = [reply EXCEPT ![p] =
                            [status |-> 0, headers |-> NilHeader, body |-> decoded.val]]
    /\ UNCHANGED <<db, files, hits, key, url, resp, writer, wait, rm, later, fault, clock>>
    /\ UNCHANGED <<handles, req, admin>>

NextCodec == EncodeUrl(Coder) \/ DecodeKey(Coder)

InitCodec == InitProcs({Coder})

SpecCodec == InitCodec /\ [][NextCodec]_vars

(***************************************************************************)
(* The header block on its own: a mapping is serialized by                 *)
(* headersAsString, or a block is found in response_headers, and           *)
(* readHeaders parses it.                                                  *)
(***************************************************************************)
\* keys of the mappings: "a", "b"
HeaderKeys == {<<97>>, <<98>>}

\* values of the mappings: "x", " x", "x:y"
HeaderValues == {<<120>>, <<SP, 120>>, <<120, COLON, 121>>}

\* the mappings with one to MaxValues values to a key
HeaderMaps ==
    LET lists == UNION {[1..n -> HeaderValues] : n \in 1..MaxValues}
    IN  UNION {[keys -> lists] : keys \in SUBSET HeaderKeys}

\* the input of TestReadHeaders
TestBlock ==
    <<97, SP, COLON, SP, 98, LF,
      100, SP, COLON, SP, 101, LF,
      97, COLON, SP, 99, LF,
      102, SP, COLON, SP, 103, LF,
      104, SP, COLON, SP, 105, SP, COLON, SP, 106, LF,
      LF,
      102, 111, 111>>

\* the blocks: every string of at most MaxBlock bytes of "a", "b", ":",
\* " " and LF, and the block of the test
HeaderBlocks ==
    UNION {[1..n -> {97, 98, COLON, SP, LF}] : n \in 0..MaxBlock} \cup {TestBlock}

Parser == 1

\* WriteHeaders(h) on a writer, and the block writeFinalMetadata stores
\* for it
StoreHeaders(p) ==
    /\ pc[p] = "idle"
    /\ \E h \in {MkHeader(m) : m \in HeaderMaps} :
        /\ writer' = [writer EXCEPT ![p] = [NoWriter EXCEPT !.open = TRUE, !.headers = h]]
        /\ rm' = [rm EXCEPT ![p] = [NoRow EXCEPT !.ResponseHeaders = headersAsString(h)]]
    /\ pc' = [pc EXCEPT ![p] = "read"]
    /\ UNCHANGED <<db, files, hits, key, url, resp, wait, reply, later, ret, fault, clock>>
    /\ UNCHANGED <<handles, req, admin>>

\* a row whose response_headers holds any block
FindBlock(p) ==
    /\ pc[p] = "idle"
    /\ \E b \in HeaderBlocks :
        rm' = [rm EXCEPT ![p] = [NoRow EXCEPT !.ResponseHeaders = b]]
    /\ pc' = [pc EXCEPT ![p] = "read"]
    /\ UNCHANGED <<db, files, hits, key, url, resp, writer, wait, reply, later, ret, fault, clock>>
    /\ UNCHANGED <<handles, req, admin>>

\* readHeaders(rm.ResponseHeaders); reply holds the mapping it returned
ReadHeaders(p) ==
    /\ pc[p] = "read"
    /\ LET parsed == readHeaders(rm[p].ResponseHeaders)
       IN  /\ Return(p, parsed.outcome)
           /\ reply' = [reply EXCEPT ![p] =
                  [status |-> 0,
                   headers |-> IF parsed.outcome = "ok" THEN MkHeader(parsed.map)
                               ELSE NilHeader,
                   body |-> <<>>]]
    /\ UNCHANGED <<db, files, hits, key, url, resp, writer, wait, rm, later, fault, clock>>
    /\ UNCHANGED <<handles, req, admin>>

NextHeaders == StoreHeaders(Parser) \/ FindBlock(Parser) \/ ReadHeaders(Parser)

InitHeaders == InitProcs({Parser})

SpecHeaders == InitHeaders /\ [][NextHeaders]_vars

(***************************************************************************)
(* Serving on its own: a completed record of any document is in the store, *)
(* and serveExistingPage serves it.                                        *)
(***************************************************************************)
\* values of attributes: "a", "http://u/a", and two that url.Parse
\* rejects, ":" (missing protocol scheme) and "%" (invalid URL escape)
LinkValues == {<<97>>, UrlA, <<COLON>>, <<PERCENT>>}

\* the elements: every link attribute on its tag, href on a tag that is no
\* key of linkAttrs, and an attribute that is no link attribute of its tag
Elements ==
    {ElementNode(t[1], <<Attribute(t[2], v)>>) :
        t \in {<<"a", "href">>, <<"link", "href">>, <<"meta", "content">>,
               <<"script", "src">>, <<"img", "src">>, <<"p", "href">>,
               <<"a", "src">>},
        v \in LinkValues}

\* the documents of at most MaxNodes nodes: elements and the text "t"
Documents ==
    UNION {[1..n -> Elements \cup {TextNode(<<116>>)}] : n \in 0..MaxNodes}

\* the stored headers: text/html, text/plain, or no Content-Type
StoredHeaders ==
    {MkHeader([k \in {ContentType} |-> <<TextHtml>>]),
     MkHeader([k \in {ContentType} |-> <<TextPlain>>]),
     MkHeader(<<>>)}

Server == 1

\* A completed record of UrlB whose blob holds the document, as a writer
\* that wrote and closed leaves it; the request for its key has passed
\* ds.Open.
CachedDocument(p) ==
    /\ pc[p] = "idle"
    /\ \E doc \in Documents, h \in StoredHeaders :
        LET row == [StubRow(1, UrlB, Encode(UrlB)) EXCEPT
                        !.ResponseHeaders = headersAsString(h),
                        !.DownloadFinished = clock,
                        !.RawBytes = Len(doc),
                        !.BytesOnDisk = Len(doc) + GzipFraming,
                        !.DownloadComplete = TRUE]
        IN  /\ db' = <<row>>
            /\ files' = [i \in {1} |-> [data |-> doc, closed |-> TRUE]]
            /\ rm' = [rm EXCEPT ![p] = row]
    /\ key' = [key EXCEPT ![p] = Encode(UrlB)]
    /\ pc' = [pc EXCEPT ![p] = "openfile"]
    /\ clock' = clock + 1
    /\ UNCHANGED <<hits, url, resp, writer, wait, reply, later, ret, fault>>
    /\ UNCHANGED <<handles, req, admin>>

NextHtml == CachedDocument(Server) \/ ServeExistingPage(Server)

InitHtml == InitProcs({Server})

SpecHtml == InitHtml /\ [][NextHtml]_vars

(***************************************************************************)
(* Properties of the request handlers (Spec).                              *)
(***************************************************************************)
\* the keys of the URLs the upstream serves
ValidKeys == {Encode(u) : u \in UpstreamUrls}

\* C1: across concurrent requests for one uncached key the upstream is
\* fetched at most once: no upstream URL is ever served more than once.
C1_UpstreamFetchedAtMostOnce ==
    \A u \in UpstreamUrls : hits[u] <= 1

\* C2: when several clients request the same uncached key at once and
\* nothing in the environment fails, every one of them is answered 200 with
\* a body equal to the upstream body.
C2_AllConcurrentRequestsServed ==
    \A p \in Handlers :
        (~fault /\ pc[p] = "done" /\ key[p] \in ValidKeys) =>
            /\ reply[p].status = 200
            /\ reply[p].body = UpstreamBody(Decode(key[p]).val)

\* C5: a request that arrives after a 200 was answered for its key never
\* goes to the upstream (it only opens the stored resource, so the fetch
\* count is not raised by it), and it is answered 200 with the body every
\* other 200 for that key carried.
C5_LaterRequestsServedFromStore ==
    \A p \in Handlers :
        later[p] =>
            /\ pc[p] \in {"open", "openfile", "done"}
            /\ pc[p] = "done" =>
                /\ reply[p].status = 200
                /\ \A q \in Handlers :
                       (key[q] = key[p] /\ reply[q].status = 200) =>
                           reply[q].body = reply[p].body

\* C5 happens: a later request for a cached key has been answered 200 and
\* the upstream was asked once for that URL.
C5_Witness ==
    \E p \in Handlers :
        /\ later[p] /\ pc[p] = "done" /\ reply[p].status = 200
        /\ hits[Decode(key[p]).val] = 1

\* C6: when the copy of the upstream body into the writer fails, the row of
\* that attempt stays Downloading: download_complete is not set for it.
C6_FailedAttemptStaysDownloading ==
    \A p \in Handlers :
        (resp[p].err /\ writer[p].id # 0) =>
            ~db[writer[p].id].DownloadComplete

\* C7: a row with download_complete set has a blob whose writer was closed
\* after all the bytes of the upstream body were written, and a reader that
\* was handed such a row reads the whole body.
C7_CompleteMeansWholeBody ==
    /\ \A i \in 1..Len(db) :
           db[i].DownloadComplete =>
               /\ i \in DOMAIN files
               /\ files[i].closed
               /\ files[i].data = UpstreamBody(db[i].Url)
    /\ \A p \in Handlers :
           pc[p] = "openfile" => BlobBody(rm[p].ID) = UpstreamBody(rm[p].Url)

(***************************************************************************)
(* Properties of the claim race (SpecClaim).                               *)
(***************************************************************************)
\* the calls of TryCreate made so far
Calls == {c \in Claimers : pc[c] # "idle"}

\* the calls whose tryCreateStubRecord created the row
Claimed == {c \in Calls : writer[c].id # 0}

C4_NoSideEffectOnExisting ==
    [][\A c \in Claimers :
          (/\ pc[c] = "idle"
           /\ pc'[c] # "idle"
           /\ \E i \in 1..Len(db) :
                  db[i].HashedUrl = key'[c] \/ db[i].Url = url'[c]) =>
              /\ db' = db
              /\ files' = files
              /\ ret'[c] = "nil"
              /\ writer'[c] = NoWriter]_vars

\* C4 happens: a call returned nil for a key whose resource is complete on
\* disk, and the row and the blob are as the writer left them.
C4_Witness ==
    \E c \in Claimers :
        /\ ret[c] = "nil"
        /\ LET row == First(key[c])
           IN  /\ row.DownloadComplete
               /\ row.RawBytes = BodyLen
               /\ files[row.ID].closed
               /\ files[row.ID].data = UpstreamBody(row.Url)

(***************************************************************************)
(* Properties of Open (SpecOpen, FairSpecOpen).                            *)
(***************************************************************************)
\* C8: Open hands out a row and a reader only for a row of the key it was
\* asked for that the poll has seen complete.
C8_OpenOnlyCompleted ==
    (pc[Opener] = "openfile" \/ ret[Opener] = "reader") =>
        /\ rm[Opener].ID # 0
        /\ rm[Opener].HashedUrl = key[Opener]
        /\ rm[Opener].DownloadComplete
        /\ db[rm[Opener].ID].DownloadComplete

\* C8 happens: Open returned a reader after it had polled a key that was
\* still Downloading.
C8_Witness ==
    /\ ret[Opener] = "reader"
    /\ wait[Opener].tries > 0

\* C9: an Open that polls a key whose row is complete goes on to return a
\* reader; and Open leaves the poll only when the row is complete or the
\* time slept has reached the deadline, so it neither returns early nor
\* fails while the fetcher is still within the deadline.
C9_WaiterGetsReader ==
    /\ (pc[Opener] = "open" /\ First(key[Opener]).DownloadComplete)
           ~> (ret[Opener] = "reader")
    /\ [][(pc[Opener] = "open" /\ pc'[Opener] # "open") =>
              \/ First(key[Opener]).DownloadComplete /\ pc'[Opener] = "openfile"
              \/ DurGE(wait[Opener].totalTime, Millis(MaxTimeMs))]_vars

\* C9 happens: Open slept on a Downloading key, the writer then closed the
\* resource, and Open returned a reader that yields the whole body.
C9_Witness ==
    /\ ret[Opener] = "reader"
    /\ wait[Opener].tries > 0
    /\ ~DurGE(wait[Opener].totalTime, Millis(MaxTimeMs))
    /\ reply[Opener].body = UpstreamBody(rm[Opener].Url)

\* C10: the poll always ends; once the time slept has reached 30 minutes an
\* attempt that finds no complete row is the last one: the poll does not
\* sleep again and returns the error; and the error is returned only then.
C10_PollTerminates ==
    /\ (pc[Opener] = "open") ~> (pc[Opener] # "open")
    /\ [][(/\ pc[Opener] = "open"
           /\ ~First(key[Opener]).DownloadComplete
           /\ DurGE(wait[Opener].totalTime, Millis(MaxTimeMs))) =>
              /\ wait'[Opener] = wait[Opener]
              /\ pc'[Opener] # "open" => ret'[Opener] = "err"]_vars
    /\ [](ret[Opener] = "err" =>
              /\ DurGE(wait[Opener].totalTime, Millis(MaxTimeMs))
              /\ ~DurGE(wait[Opener].totalTime, Millis(MaxTimeMs + MaxDelayMs)))

\* C10 happens: the row never became complete and Open returned the error
\* after the time slept had passed the deadline.
C10_Witness ==
    /\ ret[Opener] = "err"
    /\ ~First(key[Opener]).DownloadComplete
    /\ DurGE(wait[Opener].totalTime, Millis(MaxTimeMs))

(***************************************************************************)
(* Properties of the encoder (SpecCodec).                                  *)
(***************************************************************************)
\* C20: Decode(Encode(u)) = u: decoding what Encode returned for a string
\* succeeds and gives the string back.
C20_DecodeInvertsEncode ==
    pc[Coder] = "done" =>
        /\ ret[Coder] = "ok"
        /\ reply[Coder].body = url[Coder]

\* C20 happens: a string whose encoding is padded, with a byte that maps to
\* "_", went through Encode and Decode.
C20_Witness ==
    /\ pc[Coder] = "done"
    /\ url[Coder] = <<255>>
    /\ key[Coder] = <<95, 119, PAD, PAD>>
    /\ reply[Coder].body = <<255>>

(***************************************************************************)
(* Properties of the records and the blobs (SpecClaim, Spec, SpecOpen).    *)
(***************************************************************************)
\* C11: a record only moves forward.  A row is inserted not complete and
\* with download_finished at the epoch; it becomes complete in the step in
\* which its writer's Close returns; no row is ever removed or given another
\* key or URL; and a complete row never changes again (download_complete,
\* raw_bytes, bytes_on_disk and download_finished included).
C11_RecordsOnlyMoveForward ==
    [][/\ Len(db') >= Len(db)
       /\ \A i \in 1..Len(db) :
              /\ db'[i].ID = db[i].ID
              /\ db'[i].HashedUrl = db[i].HashedUrl
              /\ db'[i].Url = db[i].Url
              /\ db[i].DownloadComplete => db'[i] = db[i]
              /\ (~db[i].DownloadComplete /\ db'[i].DownloadComplete) =>
                     \E c \in Claimers :
                         /\ writer[c].id = i
                         /\ pc[c] = "finalize"
                         /\ ret'[c] = "closed"
       /\ \A i \in (Len(db) + 1)..Len(db') :
              ~db'[i].DownloadComplete /\ db'[i].DownloadFinished = 0]_vars

\* C11 happens: a row was completed, and a later claim inserted another row
\* beside it.
C11_Witness ==
    /\ Len(db) = 2
    /\ db[1].DownloadComplete
    /\ db[1].DownloadFinished > 0
    /\ db[2].DownloadStarted > db[1].DownloadFinished

\* C12: no two rows have the same url, and no two rows have the same key.
C12_UrlAndKeyUnique ==
    \A i, j \in 1..Len(db) :
        i # j => db[i].Url # db[j].Url /\ db[i].HashedUrl # db[j].HashedUrl

\* C12 happens: a claim for a new key but the URL of a row that is there was
\* made and turned away, after that row's finalization.
C12_Witness ==
    \E c \in Claimers :
        /\ ret[c] = "nil"
        /\ Len(db) = 1
        /\ db[1].DownloadComplete
        /\ url[c] = db[1].Url
        /\ key[c] # db[1].HashedUrl

\* C13: Status is NotCached exactly when no row has the key, Downloading
\* exactly when a row has it and is not complete, Cached exactly when a row
\* has it and is complete; and the handler branches on just that.
C13_StatusMatchesRecord ==
    /\ [](\A k \in RequestKeys :
            LET rows == {i \in 1..Len(db) : db[i].HashedUrl = k}
            IN  /\ Status(k) = "NotCached" <=> rows = {}
                /\ Status(k) = "Downloading" <=>
                       \E i \in rows : ~db[i].DownloadComplete
                /\ Status(k) = "Cached" <=>
                       \E i \in rows : db[i].DownloadComplete)
    /\ [][\A p \in Handlers :
              (pc[p] = "idle" /\ pc'[p] # "idle") =>
                  LET rows == {i \in 1..Len(db) : db[i].HashedUrl = key'[p]}
                  IN  /\ (pc'[p] = "fetch" \/ reply'[p].status = 400) <=> rows = {}
                      /\ reply'[p].status = 409 <=>
                             \E i \in rows : ~db[i].DownloadComplete
                      /\ pc'[p] = "open" <=>
                             \E i \in rows : db[i].DownloadComplete]_vars

\* C13 happens: one request found the key NotCached and fetched it, one found
\* it Downloading and got 409, one found it Cached and was served with no
\* fetch of its own.
C13_Witness ==
    \E p, q, r \in Handlers :
        /\ key[p] = key[q] /\ key[q] = key[r]
        /\ url[p] \in UpstreamUrls /\ reply[p].status = 200
        /\ reply[q].status = 409
        /\ url[r] = <<>> /\ reply[r].status = 200

\* C14: when the fetch of the source URL fails the request is answered 500
\* and the key has a row, left Downloading.
C14_FetchFailureLeavesStub ==
    \A p \in Handlers :
        (pc[p] = "done" /\ url[p] # <<>> /\ resp[p] = NoResp) =>
            /\ reply[p].status = 500
            /\ Status(key[p]) = "Downloading"

\* C15: once the process that claimed a key has died before finalizing, the
\* row stays Downloading: Status says Downloading, no TryCreate for the key
\* would create a row, and an Open that waits on the key returns the error,
\* with the time slept at the deadline.
C15_OrphanStaysDownloading ==
    /\ [](\A w \in Writers :
            pc[w] = "dead" =>
                /\ Status(key[w]) = "Downloading"
                /\ \A u \in UpstreamUrls :
                       ~tryCreateStubRecord(u, key[w]).created)
    /\ \A w \in Writers :
           (pc[w] = "dead" /\ pc[Opener] = "open" /\ key[Opener] = key[w])
               ~> (/\ ret[Opener] = "err"
                   /\ DurGE(wait[Opener].totalTime, Millis(MaxTimeMs)))

\* C15 happens: the writer died after its claim, and the Open that waited on
\* its key has returned the error.
C15_Witness ==
    \E w \in Writers :
        /\ pc[w] = "dead"
        /\ key[Opener] = key[w]
        /\ ret[Opener] = "err"
        /\ wait[Opener].tries > 0

\* C16: an Open that is called when the row is complete finds it Cached,
\* succeeds on its first attempt and never sleeps.
C16_CompletedOpensAtOnce ==
    later[Opener] =>
        /\ Status(key[Opener]) = "Cached"
        /\ wait[Opener].tries = 0
        /\ wait[Opener].totalTime = Millis(0)
        /\ pc[Opener] = "done" => ret[Opener] = "reader"

\* C16 happens: Open was called on a complete row and returned a reader.
C16_Witness ==
    /\ later[Opener]
    /\ ret[Opener] = "reader"
    /\ reply[Opener].body = UpstreamBody(rm[Opener].Url)

\* C17: an Open on a key that no row has fails at once: it does not wait
\* as it does for a download in progress.
C17_MissingRecordFailsAtOnce ==
    (pc[Opener] = "open" /\ First(key[Opener]).ID = 0) =>
        wait[Opener].tries = 0

\* the callers that are inside TryCreate, between the insert and os.Create
\* (a caller that died there never left it)
InClaim(i) ==
    \E c \in Claimers :
        writer[c].id = i /\ ~writer[c].open /\ pc[c] \in {"mkfile", "dead"}

\* C18: outside TryCreate a row exists exactly when its blob file exists:
\* every row has its blob, also when os.Create failed, and every blob has
\* its row.
C18_RecordIffBlob ==
    /\ \A i \in 1..Len(db) : ~InClaim(i) => i \in DOMAIN files
    /\ \A i \in DOMAIN files : i \in 1..Len(db)

\* C19: for a complete row the blob exists, bytes_on_disk is the size of
\* the blob file, and raw_bytes is the number of body bytes the writer's
\* Write calls accepted.
C19_SizesMatchBlob ==
    \A i \in 1..Len(db) :
        db[i].DownloadComplete =>
            /\ i \in DOMAIN files
            /\ db[i].BytesOnDisk = FileSize(files[i])
            /\ db[i].RawBytes = Len(files[i].data)
            /\ \A c \in Claimers :
                   writer[c].id = i => db[i].RawBytes = writer[c].rawBytes

\* C19 happens: a writer wrote its whole body and closed; the row is
\* complete.
C19_Witness ==
    \E c \in Claimers :
        /\ ret[c] = "closed"
        /\ db[writer[c].id].DownloadComplete
        /\ db[writer[c].id].RawBytes = BodyLen
        /\ db[writer[c].id].BytesOnDisk = BodyLen + GzipFraming

(***************************************************************************)
(* Properties of requests with a key that is no encoding (Spec).           *)
(***************************************************************************)
\* a key with a byte that is neither of the URL-safe alphabet, nor padding,
\* nor a line break: base64.URLEncoding rejects it
ForeignByteKey(k) ==
    \E i \in 1..Len(k) : B64Val(k[i]) < 0 /\ k[i] \notin {PAD, CR, LF}

\* C21: a request GET /c/<key> whose key fails to decode is answered 400 in
\* the step that takes it, and that step creates no row and no blob and
\* asks no upstream; the handler is then done.
C21_BadKeyAnswered400 ==
    [][\A p \in Handlers :
          (pc[p] = "idle" /\ pc'[p] # "idle" /\ ForeignByteKey(key'[p])) =>
              /\ reply'[p].status = 400
              /\ pc'[p] = "done"
              /\ db' = db /\ files' = files /\ hits' = hits]_vars

\* C21 happens: a request for "!" was answered 400 while another handler
\* had already cached a resource.
C21_Witness ==
    \E p, q \in Handlers :
        /\ key[p] = BadKey /\ reply[p].status = 400 /\ ~later[p]
        /\ reply[q].status = 200
        /\ Len(db) = 1 /\ DOMAIN files = {1}

(***************************************************************************)
(* Properties of the header block (SpecHeaders).                           *)
(***************************************************************************)
\* the parser was given a mapping that went through headersAsString
RoundTrip(p) == pc[p] = "done" /\ writer[p].open

\* the parser was given a block as it was found
Parsed(p) == pc[p] = "done" /\ ~writer[p].open

\* C23: headersAsString followed by readHeaders yields a mapping equal to
\* the original: the same keys, and to each key the same values in the same
\* order; so for the empty mapping.
C23_HeaderRoundTrip ==
    RoundTrip(Parser) =>
        /\ ret[Parser] = "ok"
        /\ reply[Parser].headers = writer[Parser].headers

\* the lines of a block that readHeaders reads: those before the first
\* empty line
HeaderLines(b) ==
    LET lines == ScanLines(b)
        empty == {i \in 1..Len(lines) : lines[i] = <<>>}
        stop == IF empty = {} THEN Len(lines) + 1
                ELSE CHOOSE i \in empty : \A j \in empty : i <= j
    IN  SubSeq(lines, 1, stop - 1)

\* where the first colon of a line is
FirstColon(l) ==
    CHOOSE i \in 1..Len(l) : l[i] = COLON /\ \A j \in 1..(i - 1) : l[j] # COLON

KeyOf(l) == TrimRight(SubSeq(l, 1, FirstColon(l) - 1), {SP, HT})

ValueOf(l) == TrimLeft(SubSeq(l, FirstColon(l) + 1, Len(l)), {SP, HT})

\* the mapping the lines spell: to each key the values of its lines, in
\* the order of the lines
Spelled(lines) ==
    LET at(k) == {i \in 1..Len(lines) : KeyOf(lines[i]) = k}
        nth(k, n) == CHOOSE i \in at(k) : Cardinality({j \in at(k) : j < i}) = n - 1
    IN  [k \in {KeyOf(lines[i]) : i \in 1..Len(lines)} |->
            [n \in 1..Cardinality(at(k)) |-> ValueOf(lines[nth(k, n)])]]

\* C24: readHeaders splits each line at its first colon only: the key is
\* the text before it without trailing blanks, the value everything after
\* it (later colons too) without leading blanks; the values of a repeated
\* key come in line order; parsing stops at the first empty line, and what
\* follows is ignored.
C24_ReadHeadersSplitsAtFirstColon ==
    (Parsed(Parser) /\ ret[Parser] = "ok") =>
        reply[Parser].headers = MkHeader(Spelled(HeaderLines(rm[Parser].ResponseHeaders)))

\* C24 happens: the block of TestReadHeaders was parsed into the mapping the
\* test expects: a: b, c; d: e; f: g; h: "i : j".
C24_Witness ==
    /\ Parsed(Parser) /\ ret[Parser] = "ok"
    /\ rm[Parser].ResponseHeaders = TestBlock
    /\ reply[Parser].headers =
           MkHeader([k \in {<<97>>, <<100>>, <<102>>, <<104>>} |->
                       IF k = <<97>> THEN <<<<98>>, <<99>>>>
                       ELSE IF k = <<100>> THEN <<<<101>>>>
                       ELSE IF k = <<102>> THEN <<<<103>>>>
                       ELSE <<<<105, SP, COLON, SP, 106>>>>])

\* C25: for a block with a non-empty line without a colon before its
\* first empty line, readHeaders returns a header parse error and no
\* mapping.
C25_ColonlessLineIsParseError ==
    (/\ Parsed(Parser)
     /\ \E i \in DOMAIN HeaderLines(rm[Parser].ResponseHeaders) :
            \A j \in DOMAIN HeaderLines(rm[Parser].ResponseHeaders)[i] :
                HeaderLines(rm[Parser].ResponseHeaders)[i][j] # COLON) =>
        /\ ret[Parser] = "err"
        /\ reply[Parser].headers = NilHeader

(***************************************************************************)
(* Properties of a resource written and then opened (SpecOpen).            *)
(***************************************************************************)
\* C22: for any resource URL, header mapping and body, once a writer has
\* written them (WriteHeaders, then Write) and closed, an Open of the same
\* key returns a reader with the same resource URL, an equal header mapping
\* and the same body.
C22_WriteThenOpenReturnsSame ==
    \A w \in Writers :
        (/\ ret[Opener] = "reader" /\ key[Opener] = key[w]
         /\ ret[w] = "closed" /\ ~resp[w].headers.nil) =>
            /\ rm[Opener].Url = url[w]
            /\ reply[Opener].headers = resp[w].headers
            /\ reply[Opener].body = resp[w].body

(***************************************************************************)
(* Properties of what is stored and what is served (Spec).                 *)
(***************************************************************************)
\* handler p takes a step of serveExistingPage
Serves(p) ==
    /\ pc[p] \in {"open", "openfile"}
    /\ pc'[p] # pc[p] \/ wait'[p] # wait[p]

\* C26: the stored body of every completed record is the upstream response
\* body, unmodified (the rewriting of HTML is done on the served response
\* only), and a step that serves a resource leaves the blobs and the
\* records as they are.
C26_StoredBodyIsUpstreamBody ==
    [][/\ \A i \in 1..Len(db') :
              db'[i].DownloadComplete =>
                  i \in DOMAIN files' /\ files'[i].data = UpstreamBody(db'[i].Url)
       /\ \A p \in Handlers : Serves(p) => db' = db /\ files' = files]_vars

(***************************************************************************)
(* Properties of the served response (SpecHtml, Spec).                     *)
(***************************************************************************)
\* the response to the request for the stored document has been written
Served == pc[Server] = "done" /\ reply[Server].status = 200

\* the stored document and the headers it was stored with
StoredDoc == BlobBody(rm[Server].ID)

StoredMap == readHeaders(rm[Server].ResponseHeaders).map

\* the document was served as HTML: Content-Type is text/html or missing
ServedAsHtml == Served /\ (ContentType \in DOMAIN StoredMap => StoredMap[ContentType] = <<TextHtml>>)

\* the attributes the spec names: href of a and link, src of script and
\* img, content of meta
IsLinkAttribute(tag, k) ==
    <<tag, k>> \in {<<"a", "href">>, <<"link", "href">>, <<"script", "src">>,
                    <<"img", "src">>, <<"meta", "content">>}

\* "http://k/c/"
CachedPrefix == <<104, 116, 116, 112, COLON, SLASH, SLASH, 107, SLASH, 99, SLASH>>

\* the value resolved against the URL of the resource, as a string
Resolved(v) ==
    LET parsed == UrlParse(v)
    IN  UrlString(IF parsed.Scheme # <<>> THEN parsed
                  ELSE ResolveReference(UrlParse(rm[Server].Url), parsed))

\* the text after the last slash
LastSegment(v) == SubSeq(v, LastIndexOf(v, SLASH) + 1, Len(v))

\* node i of the stored document as it is in the served one, after the
\* script and the opening of the html element
ServedNode(i) == reply[Server].body[i + 2]

\* C27: in every served HTML response each link attribute (href of a and
\* link, src of script and img, content of meta) whose value parses as a URL
\* is replaced by http://k/c/<Encode(absolute)>, absolute being the value
\* resolved against the URL of the resource, and the final path segment
\* decodes back to that resolved target.
C27_LinksRewrittenToCacheUrls ==
    ServedAsHtml =>
        /\ Len(reply[Server].body) = Len(StoredDoc) + 3
        /\ \A i \in 1..Len(StoredDoc) :
               /\ ServedNode(i).tag = StoredDoc[i].tag
               /\ Len(ServedNode(i).attr) = Len(StoredDoc[i].attr)
               /\ \A j \in 1..Len(StoredDoc[i].attr) :
                      LET a == StoredDoc[i].attr[j]
                          out == ServedNode(i).attr[j]
                      IN  /\ out.key = a.key
                          /\ (IsLinkAttribute(StoredDoc[i].tag, a.key) /\ ~UrlParse(a.val).err) =>
                                 /\ out.val = CachedPrefix \o Encode(Resolved(a.val))
                                 /\ Decode(LastSegment(out.val)) =
                                        [ok |-> TRUE, val |-> Resolved(a.val)]

\* C27 happens: <a href="a"> and <img src="http://u/a"> of the page
\* http://u/b were both served with the cache URL of http://u/a.
C27_Witness ==
    /\ ServedAsHtml
    /\ StoredDoc = <<ElementNode("a", <<Attribute("href", <<97>>)>>),
                     ElementNode("img", <<Attribute("src", UrlA)>>)>>
    /\ ServedNode(1).attr[1].val = CachedPrefix \o Encode(UrlA)
    /\ ServedNode(2).attr[1].val = CachedPrefix \o Encode(UrlA)

\* C28: when the value of a link attribute cannot be parsed as a URL the
\* attribute is left as it is, every other link attribute of the document
\* is still rewritten, and the response does not fail: it is a 200 with
\* the whole document.
C28_UnparsableLinkLeftAlone ==
    (/\ pc[Server] = "done"
     /\ ContentType \in DOMAIN StoredMap => StoredMap[ContentType] = <<TextHtml>>
     /\ \E i \in 1..Len(StoredDoc) : \E j \in 1..Len(StoredDoc[i].attr) :
            UrlParse(StoredDoc[i].attr[j].val).err) =>
        /\ reply[Server].status = 200
        /\ Len(reply[Server].body) = Len(StoredDoc) + 3
        /\ \A i \in 1..Len(StoredDoc) : \A j \in 1..Len(StoredDoc[i].attr) :
               IF UrlParse(StoredDoc[i].attr[j].val).err
               THEN ServedNode(i).attr[j] = StoredDoc[i].attr[j]
               ELSE IsLinkAttribute(StoredDoc[i].tag, StoredDoc[i].attr[j].key) =>
                        /\ ServedNode(i).attr[j].val # StoredDoc[i].attr[j].val
                        /\ HasPrefix(ServedNode(i).attr[j].val, CachedPrefix)

\* C28 happens: <img src=":"> was served as it is, and the <a href="a">
\* after it was rewritten.
C28_Witness ==
    /\ ServedAsHtml
    /\ StoredDoc = <<ElementNode("img", <<Attribute("src", <<COLON>>)>>),
                     ElementNode("a", <<Attribute("href", <<97>>)>>)>>
    /\ ServedNode(1) = StoredDoc[1]
    /\ ServedNode(2).attr[1].val = CachedPrefix \o Encode(UrlA)

\* C29: a served response for a cached resource has none of the filtered
\* header keys (Content-Length, Alt-Svc, Date, Strict-Transport-Security,
\* Via), and has every other header of the upstream with all its values.
C29_FilteredHeadersNotServed ==
    \A p \in Handlers :
        (pc[p] = "done" /\ reply[p].status = 200) =>
            LET upstream == UpstreamHeaders(Decode(key[p]).val).map
                served == reply[p].headers.map
            IN  /\ \A k \in {ContentLength, AltSvc, Date, StrictTransportSecurity, Via} :
                       k \notin DOMAIN served
                /\ \A k \in DOMAIN upstream :
                       k \notin {ContentLength, AltSvc, Date, StrictTransportSecurity, Via} =>
                           k \in DOMAIN served /\ served[k] = upstream[k]

Injected(body) ==
    {i \in 1..Len(body) : body[i].tag = "script" /\ body[i].text = interceptionScript}

\* C31: every served HTML response has exactly one injected service-worker
\* registration script element, as the first child of the document, however
\* often the resource was served before; the stored document has none.
C31_OneInjectedScript ==
    /\ \A p \in Handlers :
           (/\ pc[p] = "done" /\ reply[p].status = 200
            /\ getContentType(reply[p].headers) = TextHtml) =>
               /\ reply[p].body[1] = ScriptElem
               /\ Injected(reply[p].body) = {1}
    /\ \A i \in DOMAIN files : Injected(files[i].data) = {}

\* C31 happens: the page of UrlB was served to a handler, and again to one
\* whose request arrived after that; both have the script once, in front.
C31_Witness ==
    \E p, q \in Handlers :
        /\ p # q /\ key[p] = Encode(UrlB) /\ key[q] = Encode(UrlB)
        /\ reply[p].status = 200 /\ reply[q].status = 200 /\ later[q]
        /\ Injected(reply[p].body) = {1} /\ Injected(reply[q].body) = {1}
        /\ Len(reply[q].body) = BodyLen + 3

(***************************************************************************)
(* Properties of Stats and List (SpecAdmin).                               *)
(***************************************************************************)
\* the rows that are complete
Completed == {i \in 1..Len(db) : db[i].DownloadComplete}

RECURSIVE SumOver(_)
\* the sum of bytes_on_disk over a set of row ids
SumOver(ids) ==
    IF ids = {} THEN 0
    ELSE LET i == CHOOSE x \in ids : TRUE
         IN  db[i].BytesOnDisk + SumOver(ids \ {i})

\* C32: Stats returns record_count equal to the number of completed
\* records and total_bytes_on_disk equal to the sum of bytes_on_disk over
\* the completed records, each as of its query; records that are still
\* Downloading are not counted.
C32_StatsCountsCompletedRecords ==
    [][/\ (pc[Lister] = "idle" /\ pc'[Lister] = "sum") =>
              admin'.RecordCount = Cardinality(Completed)
       /\ (pc[Lister] = "sum" /\ pc'[Lister] = "list") =>
              admin'.DiskConsumptionBytes = SumOver(Completed)]_vars

\* the number of rows that started later than row r: its position, from 0,
\* in the order by download_started descending
Position(r) ==
    Cardinality({i \in 1..Len(db) : db[i].DownloadStarted > r.DownloadStarted})

\* the URLs of the rows at the positions from offset to offset + count - 1
PageUrls(offset, count) ==
    {db[i].Url : i \in {j \in 1..Len(db) :
                           Position(db[j]) >= offset /\ Position(db[j]) < offset + count}}

\* the URLs List(offset, count) would return now
ListedUrls(offset, count) ==
    LET rms == ListRows(offset, count) IN {rms[i].Url : i \in 1..Len(rms)}

\* C33: List(offset, count) returns at most count records: the records at
\* the positions offset .. offset+count-1 of all records ordered by
\* download_started descending, in that order; and on the table as it is at
\* the call the pages at offset = n*count, for the count of the call, are
\* disjoint and cover every record.
C33_ListPagesByStartDescending ==
    [][/\ (pc[Lister] = "list" /\ pc'[Lister] = "done") =>
              /\ Len(admin'.listed) <= admin'.count
              /\ {admin'.listed[i].Url : i \in 1..Len(admin'.listed)} =
                     PageUrls(admin'.offset, admin'.count)
              /\ \A i \in 1..Len(admin'.listed) :
                     \E j \in 1..Len(db) :
                         /\ db[j].Url = admin'.listed[i].Url
                         /\ Position(db[j]) = admin'.offset + i - 1
              /\ LET page == [n \in 0..Len(db) |-> ListedUrls(n * admin'.count, admin'.count)]
                 IN  /\ \A m, n \in 0..Len(db) : m # n => page[m] \cap page[n] = {}
                     /\ UNION {page[n] : n \in 0..Len(db)} = {db[i].Url : i \in 1..Len(db)}]_vars

\* C33 happens: with two records in the table, List(1, 1) returned the one
\* that started first.
C33_Witness ==
    /\ ret[Lister] = "listed" /\ Len(db) = 2
    /\ admin.offset = 1 /\ admin.count = 1
    /\ Len(admin.listed) = 1
    /\ admin.listed[1].Url = db[1].Url

\* C39: every record List returns has a non-negative DownloadDuration
\* (download_finished minus download_started), also a record that is still
\* Downloading when it is listed.
C39_DurationNotNegative ==
    \A i \in 1..Len(admin.listed) : admin.listed[i].DownloadDuration >= 0

(***************************************************************************)
(* The delays of the poll (SpecOpen).                                      *)
(***************************************************************************)
\* r is 1.5 * d rounded to a whole nanosecond, halves upward: twice r is
\* three times d, or one nanosecond more
IsRounded(r, d) ==
    \/ Norm(2 * r.ms, 2 * r.ns) = Norm(GrowthNum * d.ms, GrowthNum * d.ns)
    \/ Norm(2 * r.ms, 2 * r.ns) = Norm(GrowthNum * d.ms, GrowthNum * d.ns + 1)

\* C34: the poll of Open starts with a delay of 100 ms; each delay slept is
\* the current one, at most 10 s, and the next is min(round(1.5 * d), 10 s),
\* never shorter than the one before; every sleep follows one failed
\* attempt, counted in tries, and leaves the poll at its next attempt.
C34_DelaySchedule ==
    [][/\ (pc[Opener] = "idle" /\ pc'[Opener] = "open") =>
              wait'[Opener] = [tries |-> 0, currentDelay |-> [ms |-> 100, ns |-> 0],
                               totalTime |-> [ms |-> 0, ns |-> 0]]
       /\ wait'[Opener] # wait[Opener] /\ pc[Opener] = "open" =>
              LET d == wait[Opener].currentDelay
                  n == wait'[Opener].currentDelay
              IN  /\ ~ getResource(First(key[Opener]))
                  /\ pc'[Opener] = "open"
                  /\ wait'[Opener].tries = wait[Opener].tries + 1
                  /\ wait'[Opener].totalTime = DurAdd(wait[Opener].totalTime, d)
                  /\ DurGE([ms |-> 10000, ns |-> 0], d)
                  /\ DurGE([ms |-> 10000, ns |-> 0], n)
                  /\ DurGE(n, d)
                  /\ \/ IsRounded(n, d)
                     \/ /\ n = [ms |-> 10000, ns |-> 0]
                        \* round(1.5 * d) >= 10 s: 3 * d + 1 ns >= 20 s
                        /\ DurGE(Norm(3 * d.ms, 3 * d.ns + 1), [ms |-> 20000, ns |-> 0])]_vars

\* C34 happens: after twelve sleeps, some of them of rounded lengths, the
\* delay has reached the cap of 10 s.
C34_Witness ==
    /\ pc[Opener] = "open"
    /\ wait[Opener].tries = 12
    /\ wait[Opener].currentDelay = [ms |-> 10000, ns |-> 0]
    /\ wait[Opener].totalTime.ns # 0

(***************************************************************************)
(* One writer per blob file (SpecClaim).                                   *)
(***************************************************************************)
\* the rows whose id is the given one
RowsWithId(id) == {i \in 1..Len(db) : db[i].ID = id}

\* C37: every successful claim yields an id that no other record and no
\* other claim has: it is the id of exactly one row, the row of the
\* claimer's key and URL, and no blob file has more than one writer open
\* on it.
C37_OneWriterPerBlob ==
    /\ \A c, d \in Claimed : c # d => writer[c].id # writer[d].id
    /\ \A c \in Claimed :
           /\ Cardinality(RowsWithId(writer[c].id)) = 1
           /\ \A i \in RowsWithId(writer[c].id) :
                  db[i].HashedUrl = key[c] /\ db[i].Url = url[c]
    /\ \A i \in DOMAIN files :
           Cardinality({c \in Claimers : writer[c].open /\ writer[c].id = i}) <= 1

\* C37 happens: two claimers hold open writers at the same time, on two
\* blob files.
C37_Witness ==
    \E c, d \in Claimers :
        /\ c # d
        /\ writer[c].open /\ writer[d].open
        /\ pc[c] = "write" /\ pc[d] = "write"
        /\ writer[c].id \in DOMAIN files /\ writer[d].id \in DOMAIN files
        /\ writer[c].id # writer[d].id

(***************************************************************************)
(* Blob file handles (Spec).                                               *)
(***************************************************************************)
\* C40: Close of a ResourceWriter or of a ResourceReader closes the blob
\* file under it: once every request has finished, no blob file handle is
\* open.
C40_NoHandleLeftOpen ==
    (\A p \in Handlers : pc[p] \in {"idle", "done"}) =>
        \A p \in Handlers : handles[p] = 0

(***************************************************************************)
(* The whole site (SpecSite).                                              *)
(***************************************************************************)
\* C35: every requested key k that Decode accepts is the encoding of what
\* it decodes to, Encode(Decode(k)) = k; so the record the handler of
\* GET /c/k creates is stored under k, and the Open(k) that follows the
\* download finds it complete.
C35_AcceptedKeyIsCanonical ==
    \A p \in Visitors :
        (req[p] = "page" /\ Decode(key[p]).ok) =>
            /\ Encode(Decode(key[p]).val) = key[p]
            /\ writer[p].id # 0 => db[writer[p].id].HashedUrl = key[p]
            /\ (pc[p] = "open" /\ writer[p].id # 0) => getResource(First(key[p]))

\* C36: a create-form request for a URL that has a record when it is
\* submitted does not fetch the URL again and leaves the records and the
\* blobs as they are.
C36_CreateFormLeavesExistingAlone ==
    [][\A p \in Visitors :
           (/\ req[p] = "create" /\ later[p]
            /\ <<pc[p], writer[p], resp[p]>>' # <<pc[p], writer[p], resp[p]>>) =>
               hits' = hits /\ db' = db /\ files' = files]_vars

====
